---- MODULE Spec2Model ----
(***************************************************************************)
(* A model of the airic REPL session (src/airic/cli/repl.py) together with *)
(* the Document and Workspace classes it drives.                           *)
(*                                                                         *)
(* Strings are sequences of tokens.  A token is a string that no operation *)
(* of the program splits: "/", " ", "\n", "[[", "]]", "---", ":", ".md"    *)
(* and whole words.  A Path is a record [abs, parts] whose parts are the   *)
(* components, each a token sequence.  Python's None is the empty set for  *)
(* object-valued attributes (workspace, active_document) and the empty     *)
(* token sequence for string-valued ones (doctype, agent).                 *)
(***************************************************************************)
EXTENDS Naturals, Sequences, FiniteSets, TLC

VARIABLES
    pc,               \* AiricREPL.start: "startup" | "prompt" | "done" | "crashed"
    running,          \* AiricREPL.running
    workspace,        \* {} or {root path of the active Workspace}
    active_document,  \* {} or {the active Document object}
    active_doctype,   \* AiricREPL.active_doctype (None = <<>>)
    active_agent,     \* AiricREPL.active_agent   (None = <<>>)
    files,            \* the filesystem's regular files: path -> content
    dirs,             \* the filesystem's directories
    signal,           \* what the last prompt did: "none" | "line" | "KeyboardInterrupt" | "EOFError"
    lastInput,        \* the line the last prompt returned
    called,           \* the handlers the last turn invoked, with their argument
    agentCalls,       \* the last turn's calls of the agent collaborator, with what it did
    out,              \* the messages the last turn printed
    escaped,          \* an exception left _process_input and reached the main loop
    turns             \* the number of prompts answered so far

vars == <<pc, running, workspace, active_document, active_doctype, active_agent,
          files, dirs, signal, lastInput, called, agentCalls, out, escaped, turns>>

session == <<workspace, active_document, active_doctype, active_agent>>

(***************************************************************************)
(* Strings                                                                 *)
(***************************************************************************)
None == <<>>

\* the one element of a non-empty optional (a singleton set)
The(opt) == CHOOSE x \in opt : TRUE

SEP == "---"
NL == "\n"
SP == " "
SLASH == "/"

IsSpace(t) == t \in {SP, NL}

RECURSIVE LStrip(_)
LStrip(s) == IF s # <<>> /\ IsSpace(Head(s)) THEN LStrip(Tail(s)) ELSE s

RECURSIVE RStrip(_)
RStrip(s) ==
    IF s # <<>> /\ IsSpace(s[Len(s)]) THEN RStrip(SubSeq(s, 1, Len(s) - 1)) ELSE s

\* str.strip()
Strip(s) == RStrip(LStrip(s))

\* str.lstrip('/')
RECURSIVE LStripSlash(_)
LStripSlash(s) == IF s # <<>> /\ Head(s) = SLASH THEN LStripSlash(Tail(s)) ELSE s

\* str.startswith(t) for a one-token prefix
StartsWith(s, t) == s # <<>> /\ Head(s) = t

\* str.find(t, from): the first index >= from holding t, 0 when there is none
Find(s, t, from) ==
    LET hits == {i \in from..Len(s) : s[i] = t}
    IN  IF hits = {} THEN 0 ELSE CHOOSE i \in hits : \A j \in hits : i <= j

\* str.lower() of one token
LowerTok(t) ==
    CASE t = "OPEN" -> "open"
      [] t = "Exit" -> "exit"
      [] t = "INFO" -> "info"
      [] t = "No" -> "no"
      [] OTHER -> t

Lower(s) == [i \in 1..Len(s) |-> LowerTok(s[i])]

\* split at the first whitespace character only: the rest keeps the run
SplitMax1_KeepRun(s) ==
    LET t == LStrip(s)
        sp == {i \in 1..Len(t) : IsSpace(t[i])}
        cut == IF sp = {} THEN Len(t) + 1 ELSE CHOOSE i \in sp : \A j \in sp : i <= j
        rest == SubSeq(t, cut + 1, Len(t))
    IN  IF t = <<>> THEN <<>>
        ELSE IF rest = <<>> THEN <<SubSeq(t, 1, cut - 1)>>
        ELSE <<SubSeq(t, 1, cut - 1), rest>>

\* str.split(maxsplit=1): leading whitespace is skipped, the first word ends at
\* the next whitespace run, and what follows that run is the second part verbatim
SplitMax1(s) ==
    LET t == LStrip(s)
        sp == {i \in 1..Len(t) : IsSpace(t[i])}
        cut == IF sp = {} THEN Len(t) + 1 ELSE CHOOSE i \in sp : \A j \in sp : i <= j
        rest == LStrip(SubSeq(t, cut, Len(t)))
    IN  IF t = <<>> THEN <<>>
        ELSE IF rest = <<>> THEN <<SubSeq(t, 1, cut - 1)>>
        ELSE <<SubSeq(t, 1, cut - 1), rest>>

(***************************************************************************)
(* Paths (pathlib.Path)                                                    *)
(***************************************************************************)
\* the components of a path string: split at "/", "" and "." dropped
RECURSIVE Components(_)
Components(s) ==
    IF s = <<>> THEN <<>>
    ELSE LET k == Find(s, SLASH, 1)
             first == IF k = 0 THEN s ELSE SubSeq(s, 1, k - 1)
             rest == IF k = 0 THEN <<>> ELSE SubSeq(s, k + 1, Len(s))
         IN  IF first = <<>> \/ first = <<".">> THEN Components(rest)
             ELSE <<first>> \o Components(rest)

\* Path(s)
PathOf(s) == [abs |-> StartsWith(s, SLASH), parts |-> Components(s)]

\* p / q
Join(p, q) == IF q.abs THEN q ELSE [abs |-> p.abs, parts |-> p.parts \o q.parts]

\* p.parent
Parent(p) ==
    IF p.parts = <<>> THEN p
    ELSE [abs |-> p.abs, parts |-> SubSeq(p.parts, 1, Len(p.parts) - 1)]

\* p.name
Name(p) == IF p.parts = <<>> THEN <<>> ELSE p.parts[Len(p.parts)]

\* p.stem: the name without its last suffix
Stem(p) ==
    LET n == Name(p)
    IN  IF Len(n) > 1 /\ n[Len(n)] = ".md" THEN SubSeq(n, 1, Len(n) - 1) ELSE n

\* the proper ancestors of p and p itself
Ancestors(p) == {[abs |-> p.abs, parts |-> SubSeq(p.parts, 1, n)] : n \in 0..Len(p.parts)}

(***************************************************************************)
(* YAML as the Document class uses it.  A mapping line is <<key, ":", v..>>,*)
(* a plain scalar is a line without ":", "..." ends a document.            *)
(***************************************************************************)
EmptyMap == [k \in {} |-> None]

\* a metadata value: a mapping, or the plain scalar safe_load returned
MapMeta(m) == [isMap |-> TRUE, map |-> m, scalar |-> None]
ScalarMeta(s) == [isMap |-> FALSE, map |-> EmptyMap, scalar |-> s]
EmptyMeta == MapMeta(EmptyMap)

\* bool(metadata)
Truthy(meta) == IF meta.isMap THEN DOMAIN meta.map # {} ELSE meta.scalar # <<>>

\* the non-blank lines of a text, "..." excluded
RECURSIVE TextLines(_)
TextLines(s) ==
    IF s = <<>> THEN <<>>
    ELSE LET k == Find(s, NL, 1)
             first == IF k = 0 THEN s ELSE SubSeq(s, 1, k - 1)
             rest == IF k = 0 THEN <<>> ELSE SubSeq(s, k + 1, Len(s))
         IN  IF Strip(first) = <<>> \/ first = <<"...">> THEN TextLines(rest)
             ELSE <<first>> \o TextLines(rest)

IsMappingLine(l) == Len(l) >= 2 /\ l[1] # ":" /\ ~IsSpace(l[1]) /\ l[2] = ":"
IsScalarLine(l) == \A i \in 1..Len(l) : l[i] # ":"

\* the value of a mapping line; an empty value and null are None
LineValue(l) ==
    LET v == Strip(SubSeq(l, 3, Len(l)))
    IN  IF v = <<"null">> THEN None ELSE v

\* a mapping from its lines: a later duplicate key wins
RECURSIVE MapOfLines(_)
MapOfLines(ls) ==
    IF ls = <<>> THEN EmptyMap
    ELSE LET m == MapOfLines(SubSeq(ls, 1, Len(ls) - 1))
             l == ls[Len(ls)]
         IN  [k \in DOMAIN m \cup {l[1]} |-> IF k = l[1] THEN LineValue(l) ELSE m[k]]

\* a folded multi-line plain scalar
RECURSIVE FoldLines(_)
FoldLines(ls) ==
    IF ls = <<>> THEN <<>>
    ELSE IF Len(ls) = 1 THEN Strip(ls[1])
    ELSE Strip(ls[1]) \o <<SP>> \o FoldLines(Tail(ls))

\* yaml.safe_load(text) or {}, and {} when the YAML is malformed
SafeLoadOrEmpty(text) ==
    LET ls == TextLines(text)
    IN  IF ls = <<>> THEN EmptyMeta
        ELSE IF \A i \in 1..Len(ls) : IsMappingLine(ls[i]) THEN MapMeta(MapOfLines(ls))
        ELSE IF \A i \in 1..Len(ls) : IsScalarLine(ls[i]) THEN ScalarMeta(FoldLines(ls))
        ELSE EmptyMeta

\* yaml.dump sorts the keys of a mapping
KeyOrder == <<"agent", "created_at", "description", "doctype", "name", "title", "version">>

RECURSIVE DumpKeys(_, _)
DumpKeys(m, ks) ==
    IF ks = <<>> THEN <<>>
    ELSE (IF Head(ks) \in DOMAIN m
          THEN <<Head(ks), ":">>
               \o (IF m[Head(ks)] = None THEN <<SP, "null">> ELSE <<SP>> \o m[Head(ks)])
               \o <<NL>>
          ELSE <<>>)
         \o DumpKeys(m, Tail(ks))

\* yaml.dump(metadata, default_flow_style=False)
YamlDump(meta) ==
    IF meta.isMap THEN DumpKeys(meta.map, KeyOrder)
    ELSE meta.scalar \o <<NL, "...", NL>>

(***************************************************************************)
(* Document (src/airic/core/document.py)                                   *)
(***************************************************************************)
\* a _parse that strips the content it keeps as the body of an unclosed document
Parse_UnclosedStripped(content) ==
    IF StartsWith(content, SEP)
    THEN LET second == Find(content, SEP, 2)
         IN  IF second # 0
             THEN [metadata |-> SafeLoadOrEmpty(Strip(SubSeq(content, 2, second - 1))),
                   body |-> Strip(SubSeq(content, second + 1, Len(content)))]
             ELSE [metadata |-> EmptyMeta, body |-> Strip(content)]
    ELSE [metadata |-> EmptyMeta, body |-> content]

\* Document._parse: the metadata and body of a content string
Parse(content) ==
    IF StartsWith(content, SEP)
    THEN LET second == Find(content, SEP, 2)
         IN  IF second # 0
             THEN [metadata |-> SafeLoadOrEmpty(Strip(SubSeq(content, 2, second - 1))),
                   body |-> Strip(SubSeq(content, second + 1, Len(content)))]
             ELSE [metadata |-> EmptyMeta, body |-> content]
    ELSE [metadata |-> EmptyMeta, body |-> content]

\* Document._serialize
Serialize(metadata, body) ==
    IF ~Truthy(metadata) THEN body
    ELSE <<SEP, NL>> \o YamlDump(metadata) \o <<SEP, NL, NL>> \o body

\* a Document object; cached is {} when _content is None
Doc(path, cached, metadata, body) ==
    [path |-> path, cached |-> cached, metadata |-> metadata, body |-> body]

\* Document(path, content): parse only
DocumentFromContent(path, content) ==
    Doc(path, {content}, Parse(content).metadata, Parse(content).body)

\* Document.content
Content(doc) ==
    IF doc.cached = {} THEN Serialize(doc.metadata, doc.body)
    ELSE CHOOSE c \in doc.cached : TRUE

\* Document.doctype and Document.agent: _metadata.get(key); a metadata that is
\* not a mapping has no get and the lookup raises AttributeError
AccessorRaises(doc) == ~doc.metadata.isMap

MetaGet(doc, key) ==
    IF doc.metadata.isMap /\ key \in DOMAIN doc.metadata.map
    THEN doc.metadata.map[key] ELSE None

DocType(doc) == MetaGet(doc, "doctype")

DocAgent(doc) == MetaGet(doc, "agent")

\* an update_body that keeps the cached content
UpdateBody_KeepsCache(doc, body) == [doc EXCEPT !.body = body]

\* Document.update_body
UpdateBody(doc, body) == [doc EXCEPT !.body = body, !.cached = {}]

\* an update_metadata that replaces the mapping by the patch
UpdateMetadata_Replaces(doc, patch) == [doc EXCEPT !.metadata = MapMeta(patch), !.cached = {}]

\* Document.update_metadata: dict.update, then the cache is dropped; on a
\* metadata that is not a mapping the call raises AttributeError (AccessorRaises)
UpdateMetadata(doc, patch) ==
    [doc EXCEPT !.metadata = MapMeta([k \in DOMAIN doc.metadata.map \cup DOMAIN patch |->
                                        IF k \in DOMAIN patch THEN patch[k]
                                        ELSE doc.metadata.map[k]]),
                !.cached = {}]

\* str.title() of one token, after replace('_', ' ')
TitleTok(t) ==
    CASE t = "_" -> SP
      [] t = "new" -> "New"
      [] t = "doc" -> "Doc"
      [] OTHER -> t

\* path.stem.replace('_', ' ').title()
TitleOf(path) == [i \in 1..Len(Stem(path)) |-> TitleTok(Stem(path)[i])]

\* datetime.now().isoformat(), one opaque token
Now == <<"now">>

\* Document.create_empty(path)
CreateEmpty(path) ==
    LET title == TitleOf(path)
        meta == MapMeta([k \in {"created_at", "title"} |->
                            IF k = "title" THEN title ELSE Now])
        body == <<"#", SP>> \o title \o <<NL, NL, "Your content here...", NL>>
    IN  DocumentFromContent(path, <<SEP, NL>> \o YamlDump(meta) \o <<SEP, NL, NL>> \o body)

(***************************************************************************)
(* The filesystem: F maps the regular files to their content, D is the set *)
(* of directories.                                                         *)
(***************************************************************************)
P(parts) == [abs |-> TRUE, parts |-> parts]

Exists(p, F, D) == p \in DOMAIN F \/ p \in D

\* mkdir(parents=True, exist_ok=True) and os.makedirs(exist_ok=True) raise when
\* the path or one of its ancestors is a regular file
MkdirRaises(p, F) == \E a \in Ancestors(p) : a \in DOMAIN F

Mkdir(p, D) == D \cup Ancestors(p)

\* open(p, 'w') raises when p is a directory or its parent is no directory
WriteRaises(p, D) == p \in D \/ Parent(p) \notin D

WriteFile(F, p, c) == (p :> c) @@ F

RemoveFiles(F, ps) == The({[q \in DOMAIN G \ ps |-> G[q]] : G \in {F}})

IsEmptyDir(d, F, D) == \A q \in (DOMAIN F \cup D) : q = d \/ Parent(q) # d

Range(s) == {s[i] : i \in 1..Len(s)}

(***************************************************************************)
(* Workspace (src/airic/core/workspace.py)                                 *)
(***************************************************************************)
Sub(root, s) == Join(root, PathOf(s))

AiricDir(root) == Sub(root, <<".airic">>)
MetaDir(root) == Sub(root, <<".airic", SLASH, "meta">>)
AgentsDir(root) == Sub(root, <<".airic", SLASH, "meta", SLASH, "agents">>)
DoctypesDir(root) == Sub(root, <<".airic", SLASH, "meta", SLASH, "doctypes">>)
WorkflowsDir(root) == Sub(root, <<".airic", SLASH, "meta", SLASH, "workflows">>)
HistoryDir(root) == Sub(root, <<".airic", SLASH, "history">>)
ConfigPath(root) == Join(AiricDir(root), PathOf(<<"config.yaml">>))

\* Workspace.REQUIRED_DIRS
REQUIRED_DIRS ==
    << <<".airic">>,
       <<".airic", SLASH, "meta">>,
       <<".airic", SLASH, "meta", SLASH, "agents">>,
       <<".airic", SLASH, "meta", SLASH, "doctypes">>,
       <<".airic", SLASH, "meta", SLASH, "workflows">>,
       <<".airic", SLASH, "history">> >>

\* an is_initialized that looks at the marker directory only
IsInitialized_MarkerOnly(root, D) == AiricDir(root) \in D

\* Workspace.is_initialized
IsInitialized(root, D) ==
    /\ AiricDir(root) \in D
    /\ MetaDir(root) \in D
    /\ AgentsDir(root) \in D
    /\ DoctypesDir(root) \in D
    /\ WorkflowsDir(root) \in D
    /\ HistoryDir(root) \in D

\* Workspace.validate: the list of error messages
RECURSIVE MissingDirs(_, _, _)
MissingDirs(root, D, i) ==
    IF i > Len(REQUIRED_DIRS) THEN <<>>
    ELSE (IF Sub(root, REQUIRED_DIRS[i]) \notin D
          THEN << <<"Required directory '">> \o REQUIRED_DIRS[i] \o <<"' is missing">> >>
          ELSE <<>>)
         \o MissingDirs(root, D, i + 1)

\* a validate that looks for the config file whether or not .airic exists
Validate_ConfigAlways(root, F, D) ==
    MissingDirs(root, D, 1)
    \o (IF ~Exists(ConfigPath(root), F, D)
        THEN << <<"Configuration file '", "config.yaml", "' is missing">> >>
        ELSE <<>>)

Validate(root, F, D) ==
    MissingDirs(root, D, 1)
    \o (IF AiricDir(root) \in D /\ ~Exists(ConfigPath(root), F, D)
        THEN << <<"Configuration file '", "config.yaml", "' is missing">> >>
        ELSE <<>>)

\* workspace_context(path) yields the workspace, otherwise raises
\* WorkspaceValidationError
ContextYields(root, F, D) == Validate(root, F, D) = <<>>

\* a search that goes up to the filesystem root and returns the outermost
\* directory that holds a .airic directory
RECURSIVE FindWorkspaceRoot_Outermost(_, _)
FindWorkspaceRoot_Outermost(dir, D) ==
    LET here == IF AiricDir(dir) \in D THEN {dir} ELSE {}
    IN  IF Parent(dir) = dir THEN here
        ELSE LET up == FindWorkspaceRoot_Outermost(Parent(dir), D)
             IN  IF up # {} THEN up ELSE here

\* Workspace.find_workspace_root(start): the nearest of start and its ancestors
\* that holds a .airic directory, {} when there is none
RECURSIVE FindWorkspaceRoot(_, _)
FindWorkspaceRoot(dir, D) ==
    IF AiricDir(dir) \in D THEN {dir}
    ELSE IF Parent(dir) = dir THEN {}
    ELSE FindWorkspaceRoot(Parent(dir), D)

(***************************************************************************)
(* initialize_workspace (src/airic/core/init.py).  A fault is the failure  *)
(* the environment injects: [stage, at, perm, partial]; stage "none" is a  *)
(* run without injected failure.  partial: the file was created before the *)
(* write failed.                                                           *)
(***************************************************************************)
NoFault == [stage |-> "none", at |-> 0, perm |-> FALSE, partial |-> FALSE]

Fault(stage, at, perm, partial) ==
    [stage |-> stage, at |-> at, perm |-> perm, partial |-> partial]

\* DEFAULT_TEMPLATES: relative path and content
TemplateBody(name, doctyped) ==
    <<SEP, NL, "name", ":", SP, name, NL,
      "description", ":", SP, "Template", NL,
      "version", ":", SP, "0.1.0", NL>>
    \o (IF doctyped THEN <<"doctype", ":", SP, "doctype", NL>> ELSE <<>>)
    \o <<SEP, NL, NL, "#", SP, name, NL>>

DEFAULT_TEMPLATES ==
    << [path |-> <<"doctypes", SLASH, "agent_def", ".md">>,
        content |-> TemplateBody("agent_def", TRUE)],
       [path |-> <<"doctypes", SLASH, "doctype_def", ".md">>,
        content |-> TemplateBody("doctype_def", TRUE)],
       [path |-> <<"doctypes", SLASH, "workflow_def", ".md">>,
        content |-> TemplateBody("workflow_def", TRUE)],
       [path |-> <<"agents", SLASH, "assistant", ".md">>,
        content |-> TemplateBody("assistant", FALSE)] >>

\* the directories initialize_workspace creates, in order
InitDirs(root) ==
    <<AiricDir(root), MetaDir(root), AgentsDir(root), DoctypesDir(root),
      WorkflowsDir(root), HistoryDir(root)>>

\* the config initialize_workspace writes when the caller gives none
DefaultConfigText ==
    <<"created_at", ":", SP, "now", NL, "version", ":", SP, "0.1.0", NL>>

ReadmeText ==
    <<"#", SP, "Airic Workspace", NL, NL, "An Airic workspace", NL>>

\* _rollback_initialization, the directories: in reverse order, each removed
\* only when it exists and is empty
RECURSIVE RollbackDirs(_, _, _)
RollbackDirs(created, F, D) ==
    IF created = <<>> THEN D
    ELSE LET d == created[Len(created)]
         IN  The({RollbackDirs(SubSeq(created, 1, Len(created) - 1), F, D1) :
                    D1 \in {IF d \in D /\ IsEmptyDir(d, F, D) THEN D \ {d} ELSE D}})

\* a rollback that removes the directories before the files
Rollback_DirectoriesFirst(created_dirs, created_files, F, D) ==
    [F |-> RemoveFiles(F, Range(created_files)), D |-> RollbackDirs(created_dirs, F, D)]

\* _rollback_initialization: the files first, then the directories
Rollback(created_dirs, created_files, F, D) ==
    The({[F |-> F1, D |-> RollbackDirs(created_dirs, F1, D)] :
           F1 \in {RemoveFiles(F, Range(created_files))}})

\* _rollback_initialization when the removal of the entries in stuck raises:
\* each loop catches the exception and goes on with the next entry
RollbackInitialization(created_dirs, created_files, F, D, stuck) ==
    Rollback(SelectSeq(created_dirs, LAMBDA d : d \notin stuck),
             SelectSeq(created_files, LAMBDA f : f \notin stuck), F, D)

\* the directory stage: os.makedirs of each directory in turn
RECURSIVE MakeDirs(_, _, _, _, _)
MakeDirs(ds, i, F, D, fault) ==
    IF i > Len(ds) THEN [ok |-> TRUE, perm |-> FALSE, D |-> D, created |-> ds]
    ELSE IF fault.stage = "dirs" /\ fault.at = i
    THEN [ok |-> FALSE, perm |-> fault.perm, D |-> D, created |-> SubSeq(ds, 1, i - 1)]
    ELSE IF MkdirRaises(ds[i], F)
    THEN [ok |-> FALSE, perm |-> FALSE, D |-> D, created |-> SubSeq(ds, 1, i - 1)]
    ELSE MakeDirs(ds, i + 1, F, Mkdir(ds[i], D), fault)

\* the template stage: create_template_file for each template in turn
RECURSIVE MakeTemplates(_, _, _, _, _, _)
MakeTemplates(root, j, F, D, created, fault) ==
    IF j > Len(DEFAULT_TEMPLATES) THEN [ok |-> TRUE, F |-> F, D |-> D, created |-> created]
    ELSE LET dest == Join(MetaDir(root), PathOf(DEFAULT_TEMPLATES[j].path))
             injected == fault.stage = "templates" /\ fault.at = j
         IN  IF MkdirRaises(Parent(dest), F)
             THEN [ok |-> FALSE, F |-> F, D |-> D, created |-> created]
             ELSE IF WriteRaises(dest, Mkdir(Parent(dest), D)) \/ (injected /\ ~fault.partial)
             THEN [ok |-> FALSE, F |-> F, D |-> Mkdir(Parent(dest), D), created |-> created]
             ELSE IF injected
             THEN [ok |-> FALSE, F |-> WriteFile(F, dest, <<>>),
                   D |-> Mkdir(Parent(dest), D), created |-> created]
             ELSE MakeTemplates(root, j + 1,
                                WriteFile(F, dest, DEFAULT_TEMPLATES[j].content),
                                Mkdir(Parent(dest), D), Append(created, dest), fault)

Failure(msg, rb) == [success |-> FALSE, messages |-> <<msg>>, F |-> rb.F, D |-> rb.D]

\* the config stage: open(config_path, 'w'), yaml.dump, created_files.append
ConfigStage(directory, F, D, fault) ==
    LET cfg == ConfigPath(directory)
        injected == fault.stage = "config"
    IN  IF WriteRaises(cfg, D) \/ (injected /\ ~fault.partial)
        THEN [ok |-> FALSE, F |-> F, created |-> <<>>]
        ELSE IF injected
        THEN [ok |-> FALSE, F |-> WriteFile(F, cfg, <<>>), created |-> <<>>]
        ELSE [ok |-> TRUE, F |-> WriteFile(F, cfg, DefaultConfigText), created |-> <<cfg>>]

\* the README stage: written only when absent, a failure is logged and ignored
ReadmeStage(directory, F, D, fault) ==
    LET readme == Join(directory, PathOf(<<"README", ".md">>))
        injected == fault.stage = "readme"
    IN  IF Exists(readme, F, D) \/ WriteRaises(readme, D) \/ (injected /\ ~fault.partial)
        THEN F
        ELSE WriteFile(F, readme, IF injected THEN <<>> ELSE ReadmeText)

\* an initializer for which a README that cannot be written is a failure
AfterTemplates_ReadmeFatal(directory, dirsMade, c, fault) ==
    IF ~c.ok
    THEN Failure(<<"Error creating template files: ">>,
                 Rollback(dirsMade, c.created, c.F, c.D))
    ELSE IF fault.stage = "readme"
    THEN Failure(<<"Error creating README.md: ">>,
                 Rollback(dirsMade, c.created, c.F, c.D))
    ELSE [success |-> TRUE, messages |-> <<>>,
          F |-> ReadmeStage(directory, c.F, c.D, fault), D |-> c.D]

\* initialize_workspace after the template stage c
AfterTemplates(directory, dirsMade, c, fault) ==
    IF ~c.ok
    THEN Failure(<<"Error creating template files: ">>,
                 Rollback(dirsMade, c.created, c.F, c.D))
    ELSE [success |-> TRUE, messages |-> <<>>,
          F |-> ReadmeStage(directory, c.F, c.D, fault), D |-> c.D]

\* an initializer that reports a permission error of the config stage with
\* the message of the directory stage
AfterConfig_PermissionPrefix(directory, a, b, fault) ==
    IF ~b.ok
    THEN Failure(IF fault.perm
                 THEN <<"Permission denied when creating directories in ">>
                 ELSE <<"Error creating workspace configuration: ">>,
                 Rollback(a.created, b.created, b.F, a.D))
    ELSE The({AfterTemplates(directory, a.created, c, fault) :
                c \in {MakeTemplates(directory, 1, b.F, a.D, b.created, fault)}})

\* initialize_workspace after the config stage b
AfterConfig(directory, a, b, fault) ==
    IF ~b.ok
    THEN Failure(<<"Error creating workspace configuration: ">>,
                 Rollback(a.created, b.created, b.F, a.D))
    ELSE The({AfterTemplates(directory, a.created, c, fault) :
                c \in {MakeTemplates(directory, 1, b.F, a.D, b.created, fault)}})

\* initialize_workspace after the directory stage a
AfterDirs(directory, F, a, fault) ==
    IF ~a.ok
    THEN Failure(IF a.perm
                 THEN <<"Permission denied when creating directories in ">>
                 ELSE <<"Error creating workspace directories: ">>,
                 Rollback(a.created, <<>>, F, a.D))
    ELSE The({AfterConfig(directory, a, b, fault) :
                b \in {ConfigStage(directory, F, a.D, fault)}})

\* an initialize_workspace that does not look for an existing workspace
InitializeWorkspace_Again(directory, F, D, fault) ==
    IF fault.stage = "unexpected"
    THEN Failure(<<"Unexpected error during workspace initialization: ">>, [F |-> F, D |-> D])
    ELSE The({AfterDirs(directory, F, a, fault) :
                a \in {MakeDirs(InitDirs(directory), 1, F, D, fault)}})

\* initialize_workspace(directory) with config None
InitializeWorkspace(directory, F, D, fault) ==
    IF fault.stage = "unexpected"
    THEN Failure(<<"Unexpected error during workspace initialization: ">>, [F |-> F, D |-> D])
    ELSE IF IsInitialized(directory, D)
    THEN [success |-> TRUE, messages |-> << <<"Workspace already initialized">> >>,
          F |-> F, D |-> D]
    ELSE The({AfterDirs(directory, F, a, fault) :
                a \in {MakeDirs(InitDirs(directory), 1, F, D, fault)}})

(***************************************************************************)
(* AiricREPL (src/airic/cli/repl.py).  A handler is an operator from its   *)
(* argument (and what the environment does during the call) to the result  *)
(* of the call: the session attributes and filesystem it leaves, what it   *)
(* printed, and the exception that left it ("none" when it returned).      *)
(***************************************************************************)
Cur ==
    [ws |-> workspace, doc |-> active_document, doctype |-> active_doctype,
     agent |-> active_agent, F |-> files, D |-> dirs, running |-> running,
     out |-> <<>>, agentCalls |-> <<>>, exc |-> "none"]

\* str(path)
RECURSIVE JoinParts(_)
JoinParts(parts) ==
    IF parts = <<>> THEN <<>>
    ELSE IF Len(parts) = 1 THEN parts[1]
    ELSE parts[1] \o <<SLASH>> \o JoinParts(Tail(parts))

PathStr(p) ==
    IF p.abs THEN <<SLASH>> \o JoinParts(p.parts)
    ELSE IF p.parts = <<>> THEN <<".">> ELSE JoinParts(p.parts)

\* print_error, print_info, print_success, print_warning, print_markdown,
\* print_panel and console.print of a table
PrintError(r, text) == [r EXCEPT !.out = Append(@, <<"error">> \o text)]
PrintInfo(r, text) == [r EXCEPT !.out = Append(@, <<"info">> \o text)]
PrintSuccess(r, text) == [r EXCEPT !.out = Append(@, <<"success">> \o text)]
PrintWarning(r, text) == [r EXCEPT !.out = Append(@, <<"warning">> \o text)]
PrintMarkdown(r, text) == [r EXCEPT !.out = Append(@, <<"markdown">> \o text)]
PrintPanel(r, title) == [r EXCEPT !.out = Append(@, <<"panel", title>>)]
PrintTable(r, title) == [r EXCEPT !.out = Append(@, <<"table", title>>)]

\* an exception leaves the handler
Raise(r, kind) == [r EXCEPT !.exc = kind]

NoWorkspaceMsg == <<"No active workspace. Use /init to initialize a workspace.">>

\* AiricREPL.commands: command name -> handler
CommandNames ==
    {"exit", "quit", "help", "list", "open", "info", "close", "new", "init",
     "edit", "save", "ai"}

commands ==
    [c \in CommandNames |->
        CASE c \in {"exit", "quit"} -> "_handle_exit"
          [] c = "help" -> "_handle_help"
          [] c = "list" -> "_handle_list"
          [] c = "open" -> "_handle_open"
          [] c = "info" -> "_handle_info"
          [] c = "close" -> "_handle_close"
          [] c = "new" -> "_handle_new"
          [] c = "init" -> "_handle_init"
          [] c = "edit" -> "_handle_edit"
          [] c = "save" -> "_handle_save"
          [] c = "ai" -> "_handle_ai"]

\* _process_input and _handle_command up to the call of the handler: where a
\* line goes.  kind "raise": parts[0] of an empty split raises IndexError
Route(user_input) ==
    LET stripped_input == Strip(user_input)
        parts == SplitMax1(Tail(stripped_input))
        command == Lower(parts[1])
        args == IF Len(parts) > 1 THEN parts[2] ELSE <<>>
    IN  IF ~StartsWith(stripped_input, SLASH)
        THEN [kind |-> "text", handler |-> "_handle_text_input",
              command |-> <<>>, args |-> stripped_input]
        ELSE IF parts = <<>>
        THEN [kind |-> "raise", handler |-> "none", command |-> <<>>, args |-> <<>>]
        ELSE IF Len(command) = 1 /\ command[1] \in DOMAIN commands
        THEN [kind |-> "command", handler |-> commands[command[1]],
              command |-> command, args |-> args]
        ELSE [kind |-> "unknown", handler |-> "none", command |-> command, args |-> args]

\* an unknown command that raises instead of printing
HandleUnknown_Raises(command) == Raise(Cur, "KeyError")

\* _handle_command, the branch of a command that is not in the table
HandleUnknown(command) ==
    PrintInfo(PrintError(Cur, <<"Unknown command: ">> \o command),
              <<"Type [bold]/help[/bold] for a list of available commands.">>)

\* an exit that says goodbye and leaves the running flag set
HandleExit_KeepsRunning(args) == PrintSuccess(Cur, <<"Goodbye!">>)

\* _handle_exit
HandleExit(args) == [PrintSuccess(Cur, <<"Goodbye!">>) EXCEPT !.running = FALSE]

\* _handle_help
HandleHelp(args) == PrintPanel(Cur, "Airic Help")

\* _handle_close
HandleClose(args) ==
    IF active_document = {} THEN PrintError(Cur, <<"No active document to close.">>)
    ELSE PrintSuccess([Cur EXCEPT !.doc = {}, !.doctype = None],
                      <<"Closed document: ">> \o Name(The(active_document).path))

\* _handle_info
HandleInfo(args) ==
    IF active_document = {}
    THEN PrintError(Cur, <<"No active document. Use /open or /new to open a document.">>)
    ELSE IF AccessorRaises(The(active_document)) THEN Raise(Cur, "AttributeError")
    ELSE IF The(active_document).body # <<>>
    THEN PrintPanel(PrintTable(Cur, "Document Metadata"), "Content Preview")
    ELSE PrintTable(Cur, "Document Metadata")

\* a prompt without the document context
AgentContext_None == <<>>

\* _handle_text_input, the context of the prompt: the labeled body of the
\* active document
AgentContext ==
    IF active_document = {} THEN <<>>
    ELSE <<NL, NL, "Current Document Context (">> \o Name(The(active_document).path)
         \o <<"):", NL>> \o The(active_document).body

\* an AI path without the try/except around the collaborator's call
HandleTextInput_NoCatch(text, agent) ==
    LET r == [PrintInfo(Cur, <<"Sending request to AI agent...">>) EXCEPT
                 !.agentCalls = <<[user_input |-> text \o AgentContext,
                                   user_id |-> "repl_user",
                                   raises |-> agent.raises, response |-> agent.text]>>]
    IN  IF agent.raises THEN Raise(r, "Exception") ELSE PrintMarkdown(r, agent.text)

\* _handle_text_input; agent is what interact_with_agent does: it returns a
\* response or raises
HandleTextInput(text, agent) ==
    LET r == [PrintInfo(Cur, <<"Sending request to AI agent...">>) EXCEPT
                 !.agentCalls = <<[user_input |-> text \o AgentContext,
                                   user_id |-> "repl_user",
                                   raises |-> agent.raises, response |-> agent.text]>>]
    IN  IF agent.raises
        THEN PrintError(r, <<"Error interacting with AI agent: ">> \o agent.text)
        ELSE PrintMarkdown(r, agent.text)

\* re.match(r'^\[\[(.+)\]\]$', path_str)
IsWikiLink(path_str) ==
    /\ Len(path_str) >= 3
    /\ path_str[1] = "[["
    /\ path_str[Len(path_str)] = "]]"
    /\ \A i \in 1..Len(path_str) : path_str[i] # NL

\* a resolution that takes every WikiLink from the workspace root
ResolveDocumentPath_RootOnly(arg) ==
    LET path_str == Strip(arg)
        link_content == Strip(SubSeq(path_str, 2, Len(path_str) - 1))
        target_filename == LStripSlash(link_content) \o <<".md">>
        root_path == The(workspace)
    IN  IF path_str = <<>> THEN {}
        ELSE IF IsWikiLink(path_str) THEN {Join(root_path, PathOf(target_filename))}
        ELSE IF ~PathOf(path_str).abs THEN {Join(root_path, PathOf(path_str))}
        ELSE {PathOf(path_str)}

\* _resolve_document_path: {} is None
ResolveDocumentPath(arg) ==
    LET path_str == Strip(arg)
        link_content == Strip(SubSeq(path_str, 2, Len(path_str) - 1))
        target_filename == LStripSlash(link_content) \o <<".md">>
        root_path == The(workspace)
    IN  IF path_str = <<>> THEN {}
        ELSE IF IsWikiLink(path_str)
        THEN IF StartsWith(link_content, SLASH)
             THEN {Join(root_path, PathOf(target_filename))}
             ELSE IF active_document # {}
             THEN {Join(Parent(The(active_document).path), PathOf(target_filename))}
             ELSE {Join(root_path, PathOf(target_filename))}
        ELSE IF ~PathOf(path_str).abs THEN {Join(root_path, PathOf(path_str))}
        ELSE {PathOf(path_str)}

\* Document._load raises DocumentError: the read fails
LoadRaises(path, F, io) == io = "read_fail" \/ path \notin DOMAIN F

\* Document(path) of an existing file, after _load
Loaded(path, F) == DocumentFromContent(path, F[path])

\* Document.save: parent.mkdir(parents=True, exist_ok=True), then the write of
\* self.content; any failure is a DocumentError
SaveDoc(doc, F, D, io) ==
    LET parent == Parent(doc.path)
        D1 == Mkdir(parent, D)
    IN  IF io = "mkdir_fail" \/ MkdirRaises(parent, F)
        THEN [ok |-> FALSE, F |-> F, D |-> D, doc |-> doc]
        ELSE IF io = "write_fail" \/ WriteRaises(doc.path, D1)
        THEN [ok |-> FALSE, F |-> F, D |-> D1, doc |-> doc]
        ELSE [ok |-> TRUE, F |-> WriteFile(F, doc.path, Content(doc)), D |-> D1,
              doc |-> [doc EXCEPT !.cached = {Content(doc)}]]

\* the three assignments active_document, active_doctype, active_agent of
\* _handle_open and _open_default_document; the accessor of a metadata that is
\* not a mapping raises after the first
SetActive(r, doc) ==
    IF AccessorRaises(doc) THEN Raise([r EXCEPT !.doc = {doc}], "AttributeError")
    ELSE [r EXCEPT !.doc = {doc}, !.doctype = DocType(doc), !.agent = DocAgent(doc)]

\* _handle_open, empty argument: reload the active document
ReloadActive(io) ==
    IF active_document = {}
    THEN PrintError(Cur, <<"No active document to reload. Use /open <path> to open one.">>)
    ELSE LET doc == The(active_document)
         IN  IF LoadRaises(doc.path, files, io)
             THEN PrintError(Cur, <<"Error reloading document: ">>)
             ELSE PrintMarkdown(
                      PrintSuccess([Cur EXCEPT !.doc = {Loaded(doc.path, files)}],
                                   <<"Reloaded document: ">> \o Name(doc.path)),
                      Loaded(doc.path, files).body)

\* a creation from a WikiLink that opens the new document without saving it
CreateFromWikiLink_Unsaved(resolved_path, io) ==
    LET r0 == PrintInfo(Cur, <<"Creating new document from WikiLink: ">> \o PathStr(resolved_path))
    IN  PrintMarkdown(
            PrintSuccess(SetActive(r0, CreateEmpty(resolved_path)),
                         <<"Created and opened new document: ">> \o Name(resolved_path)),
            CreateEmpty(resolved_path).body)

\* _handle_open, a WikiLink whose file does not exist: create and open
CreateFromWikiLink(resolved_path, io) ==
    LET r0 == PrintInfo(Cur, <<"Creating new document from WikiLink: ">> \o PathStr(resolved_path))
        D1 == Mkdir(Parent(resolved_path), dirs)
        sv == SaveDoc(CreateEmpty(resolved_path), files, D1, io)
    IN  IF MkdirRaises(Parent(resolved_path), files) THEN Raise(r0, "FileExistsError")
        ELSE IF io = "mkdir_fail" THEN Raise(r0, "PermissionError")
        ELSE IF ~sv.ok
        THEN PrintError([r0 EXCEPT !.F = sv.F, !.D = sv.D],
                        <<"Error creating document from WikiLink: ">>)
        ELSE PrintMarkdown(
                 PrintSuccess(SetActive([r0 EXCEPT !.F = sv.F, !.D = sv.D], sv.doc),
                              <<"Created and opened new document: ">> \o Name(resolved_path)),
                 sv.doc.body)

\* _handle_open, the file exists and is not the active document
OpenExisting(resolved_path, io) ==
    IF LoadRaises(resolved_path, files, io)
    THEN PrintError(Cur, <<"Error opening document: ">>)
    ELSE LET r == SetActive(Cur, Loaded(resolved_path, files))
         IN  IF r.exc # "none" THEN r
             ELSE PrintMarkdown(
                      PrintSuccess(r, <<"Opened document: ">> \o Name(resolved_path)),
                      Loaded(resolved_path, files).body)

\* _handle_open
HandleOpen(args, io) ==
    IF workspace = {} THEN PrintError(Cur, NoWorkspaceMsg)
    ELSE IF Strip(args) = <<>> THEN ReloadActive(io)
    ELSE LET resolved_path == The(ResolveDocumentPath(Strip(args)))
         IN  IF ~Exists(resolved_path, files, dirs)
             THEN IF IsWikiLink(Strip(args)) THEN CreateFromWikiLink(resolved_path, io)
                  ELSE PrintInfo(
                           PrintError(Cur, <<"Document not found: ">> \o PathStr(resolved_path)),
                           <<"Use /new to create a new document.">>)
             ELSE IF active_document # {} /\ The(active_document).path = resolved_path
             THEN PrintInfo(Cur, <<"Document '">> \o Name(resolved_path) \o <<"' is already open.">>)
             ELSE OpenExisting(resolved_path, io)

\* a /new that looks at its argument before it looks for a workspace
HandleNew_ArgumentFirst(args, io) ==
    IF args = <<>> THEN PrintError(Cur, <<"Missing document path. Usage: /new <path>">>)
    ELSE IF workspace = {} THEN PrintError(Cur, NoWorkspaceMsg)
    ELSE LET p0 == PathOf(Strip(args))
             path == IF ~p0.abs THEN Join(The(workspace), p0) ELSE p0
             sv == SaveDoc(CreateEmpty(path), files, dirs, io)
         IN  IF Exists(path, files, dirs)
             THEN PrintInfo(PrintError(Cur, <<"Document already exists: ">> \o PathStr(path)),
                            <<"Use /open to open an existing document.">>)
             ELSE IF ~sv.ok
             THEN PrintError([Cur EXCEPT !.F = sv.F, !.D = sv.D], <<"Error creating document: ">>)
             ELSE PrintMarkdown(
                      PrintSuccess([Cur EXCEPT !.F = sv.F, !.D = sv.D, !.doc = {sv.doc},
                                               !.doctype = DocType(sv.doc)],
                                   <<"Created and opened new document: ">> \o Name(path)),
                      sv.doc.body)

\* the directory the process runs in
Cwd == P(<< <<"ws">> >>)

\* a /new that works in the current directory when there is no workspace
HandleNew_WithoutWorkspace(args, io) ==
    LET p0 == PathOf(Strip(args))
        root == IF workspace = {} THEN Cwd ELSE The(workspace)
        path == IF ~p0.abs THEN Join(root, p0) ELSE p0
        sv == SaveDoc(CreateEmpty(path), files, dirs, io)
    IN  IF args = <<>> THEN PrintError(Cur, <<"Missing document path. Usage: /new <path>">>)
        ELSE IF Exists(path, files, dirs)
        THEN PrintInfo(PrintError(Cur, <<"Document already exists: ">> \o PathStr(path)),
                       <<"Use /open to open an existing document.">>)
        ELSE IF ~sv.ok
        THEN PrintError([Cur EXCEPT !.F = sv.F, !.D = sv.D], <<"Error creating document: ">>)
        ELSE PrintMarkdown(
                 PrintSuccess([Cur EXCEPT !.F = sv.F, !.D = sv.D, !.doc = {sv.doc},
                                          !.doctype = DocType(sv.doc)],
                              <<"Created and opened new document: ">> \o Name(path)),
                 sv.doc.body)

\* a /new that does not look whether the path exists
HandleNew_Overwrites(args, io) ==
    LET p0 == PathOf(Strip(args))
        path == IF ~p0.abs THEN Join(The(workspace), p0) ELSE p0
        sv == SaveDoc(CreateEmpty(path), files, dirs, io)
    IN  IF workspace = {} THEN PrintError(Cur, NoWorkspaceMsg)
        ELSE IF args = <<>> THEN PrintError(Cur, <<"Missing document path. Usage: /new <path>">>)
        ELSE IF ~sv.ok
        THEN PrintError([Cur EXCEPT !.F = sv.F, !.D = sv.D], <<"Error creating document: ">>)
        ELSE PrintMarkdown(
                 PrintSuccess([Cur EXCEPT !.F = sv.F, !.D = sv.D, !.doc = {sv.doc},
                                          !.doctype = DocType(sv.doc)],
                              <<"Created and opened new document: ">> \o Name(path)),
                 sv.doc.body)

\* _handle_new
HandleNew(args, io) ==
    LET p0 == PathOf(Strip(args))
        path == IF ~p0.abs THEN Join(The(workspace), p0) ELSE p0
        sv == SaveDoc(CreateEmpty(path), files, dirs, io)
    IN  IF workspace = {} THEN PrintError(Cur, NoWorkspaceMsg)
        ELSE IF args = <<>> THEN PrintError(Cur, <<"Missing document path. Usage: /new <path>">>)
        ELSE IF Exists(path, files, dirs)
        THEN PrintInfo(PrintError(Cur, <<"Document already exists: ">> \o PathStr(path)),
                       <<"Use /open to open an existing document.">>)
        ELSE IF ~sv.ok
        THEN PrintError([Cur EXCEPT !.F = sv.F, !.D = sv.D], <<"Error creating document: ">>)
        ELSE PrintMarkdown(
                 PrintSuccess([Cur EXCEPT !.F = sv.F, !.D = sv.D, !.doc = {sv.doc},
                                          !.doctype = DocType(sv.doc)],
                              <<"Created and opened new document: ">> \o Name(path)),
                 sv.doc.body)

\* an /edit that writes the new body to the file at once
HandleEdit_WritesThrough(args, edit) ==
    IF active_document = {}
    THEN PrintInfo(PrintError(Cur, <<"No active document to edit.">>),
                   <<"Use /open <path> or /new <path> to open or create a document.">>)
    ELSE LET doc == The(active_document)
             r0 == PrintInfo(
                       PrintPanel(PrintInfo(Cur, <<"Editing document: ">> \o Name(doc.path)),
                                  "Current Content"),
                       <<"Enter new content below (press Ctrl+D or Ctrl+Z on a new line to finish):">>)
             sv == SaveDoc(UpdateBody(doc, edit.text), files, dirs, "ok")
         IN  IF edit.kind = "KeyboardInterrupt" THEN PrintWarning(r0, <<"Edit cancelled.">>)
             ELSE IF edit.kind = "Exception" THEN PrintError(r0, <<"Error during edit: ">>)
             ELSE PrintInfo(
                      PrintSuccess([r0 EXCEPT !.doc = {sv.doc}, !.F = sv.F, !.D = sv.D],
                                   <<"Document content updated.">>),
                      <<"Use /save to save the changes to disk.">>)

\* _handle_edit; edit is what prompt() does: it returns the new content or
\* raises KeyboardInterrupt or another exception
HandleEdit(args, edit) ==
    IF active_document = {}
    THEN PrintInfo(PrintError(Cur, <<"No active document to edit.">>),
                   <<"Use /open <path> or /new <path> to open or create a document.">>)
    ELSE LET doc == The(active_document)
             r0 == PrintInfo(
                       PrintPanel(PrintInfo(Cur, <<"Editing document: ">> \o Name(doc.path)),
                                  "Current Content"),
                       <<"Enter new content below (press Ctrl+D or Ctrl+Z on a new line to finish):">>)
         IN  IF edit.kind = "KeyboardInterrupt" THEN PrintWarning(r0, <<"Edit cancelled.">>)
             ELSE IF edit.kind = "Exception" THEN PrintError(r0, <<"Error during edit: ">>)
             ELSE PrintInfo(
                      PrintSuccess([r0 EXCEPT !.doc = {UpdateBody(doc, edit.text)}],
                                   <<"Document content updated.">>),
                      <<"Use /save to save the changes to disk.">>)

\* _handle_save
HandleSave(args, io) ==
    IF active_document = {} THEN PrintError(Cur, <<"No active document to save.">>)
    ELSE LET sv == SaveDoc(The(active_document), files, dirs, io)
         IN  IF ~sv.ok
             THEN PrintError([Cur EXCEPT !.F = sv.F, !.D = sv.D, !.doc = {sv.doc}],
                             <<"Error saving document: ">>)
             ELSE PrintSuccess([Cur EXCEPT !.F = sv.F, !.D = sv.D, !.doc = {sv.doc}],
                               <<"Document saved: ">> \o PathStr(sv.doc.path))

\* fnmatch of one path component against one pattern component; "*" matches
\* any run of tokens
RECURSIVE Match(_, _)
Match(pat, name) ==
    IF pat = <<>> THEN name = <<>>
    ELSE IF Head(pat) = "*"
    THEN \E k \in 0..Len(name) : Match(Tail(pat), SubSeq(name, k + 1, Len(name)))
    ELSE name # <<>> /\ Head(name) = Head(pat) /\ Match(Tail(pat), Tail(name))

\* directory.glob(pattern) for a relative pattern
Glob(directory, pattern, F, D) ==
    LET pat == PathOf(pattern).parts
        n == Len(directory.parts)
    IN  {q \in DOMAIN F \cup D :
            /\ q.abs = directory.abs
            /\ Len(q.parts) = n + Len(pat)
            /\ SubSeq(q.parts, 1, n) = directory.parts
            /\ \A i \in 1..Len(pat) : Match(pat[i], q.parts[n + i])}

\* find_documents(directory, pattern): the documents it loads; a file whose
\* load raises DocumentError is skipped
FindDocuments(directory, pattern, F, D, io) ==
    IF directory \notin D THEN {}
    ELSE {Loaded(q, F) : q \in {x \in Glob(directory, pattern, F, D) :
                                    x \in DOMAIN F /\ ~LoadRaises(x, F, io)}}

\* _handle_list; glob raises NotImplementedError for an absolute pattern, and
\* the doctype of a listed document whose metadata is no mapping raises
HandleList(args, io) ==
    LET pattern == IF args # <<>> THEN Strip(args) ELSE <<"*", ".md">>
        r0 == PrintInfo(Cur, <<"Listing documents matching pattern: ">> \o pattern)
        documents == FindDocuments(The(workspace), pattern, files, dirs, io)
    IN  IF workspace = {} THEN PrintError(Cur, NoWorkspaceMsg)
        ELSE IF PathOf(pattern).abs THEN Raise(r0, "NotImplementedError")
        ELSE IF documents = {} THEN PrintInfo(r0, <<"No documents found.">>)
        ELSE IF \E d \in documents : AccessorRaises(d) THEN Raise(r0, "AttributeError")
        ELSE PrintInfo(PrintTable(r0, "Documents"),
                       <<"Found ", ToString(Cardinality(documents)), " document(s)">>)

\* the messages initialize_workspace returned, printed one by one
PrintEach(r, level, prefix, messages) ==
    [r EXCEPT !.out = @ \o [i \in 1..Len(messages) |-> <<level>> \o prefix \o messages[i]]]

\* _handle_init from the call of initialize_workspace on; r1 is the call so far
InitializeAndLoad(path, r1, res) ==
    LET r2 == [r1 EXCEPT !.F = res.F, !.D = res.D]
    IN  IF ~res.success
        THEN PrintEach(PrintError(r2, <<"Failed to initialize workspace:">>),
                       "error", <<"  - ">>, res.messages)
        ELSE IF ~ContextYields(path, res.F, res.D)
        THEN PrintError(r2, <<"Error during workspace initialization: ">>)
        ELSE PrintEach(PrintSuccess([r2 EXCEPT !.ws = {path}],
                                    <<"Initialized new workspace: ">> \o PathStr(path)),
                       "info", <<>>, res.messages)

\* an /init that does not look at the active workspace
HandleInit_Switches(args, fault, io) ==
    LET path_str == IF args # <<>> THEN Strip(args) ELSE <<".">>
        path == Join(Cwd, PathOf(path_str))
        made == ~Exists(path, files, dirs)
        D1 == IF made THEN Mkdir(path, dirs) ELSE dirs
        r1 == IF made
              THEN PrintInfo([Cur EXCEPT !.D = D1], <<"Created directory: ">> \o PathStr(path))
              ELSE Cur
    IN  IF made /\ (io = "mkdir_fail" \/ MkdirRaises(path, files))
        THEN PrintError(Cur, <<"Failed to create directory: ">>)
        ELSE IF ContextYields(path, files, D1)
        THEN PrintSuccess([r1 EXCEPT !.ws = {path}],
                          <<"Opened existing workspace: ">> \o PathStr(path))
        ELSE The({InitializeAndLoad(path, r1, res) :
                    res \in {InitializeWorkspace(path, files, D1, fault)}})

\* _handle_init
HandleInit(args, fault, io) ==
    LET path_str == IF args # <<>> THEN Strip(args) ELSE <<".">>
        path == Join(Cwd, PathOf(path_str))
        made == ~Exists(path, files, dirs)
        D1 == IF made THEN Mkdir(path, dirs) ELSE dirs
        r1 == IF made
              THEN PrintInfo([Cur EXCEPT !.D = D1], <<"Created directory: ">> \o PathStr(path))
              ELSE Cur
    IN  IF workspace # {}
        THEN PrintInfo(
                 PrintWarning(Cur, <<"Already in workspace: ">> \o PathStr(The(workspace))),
                 IF The(workspace) = path
                 THEN <<"This is already the active workspace.">>
                 ELSE <<"Use /exit and start a new REPL session to switch workspaces.">>)
        ELSE IF made /\ (io = "mkdir_fail" \/ MkdirRaises(path, files))
        THEN PrintError(Cur, <<"Failed to create directory: ">>)
        ELSE IF ContextYields(path, files, D1)
        THEN PrintSuccess([r1 EXCEPT !.ws = {path}],
                          <<"Opened existing workspace: ">> \o PathStr(path))
        ELSE The({InitializeAndLoad(path, r1, res) :
                    res \in {InitializeWorkspace(path, files, D1, fault)}})

\* str.split(): the whitespace-separated words
RECURSIVE SplitAll(_)
SplitAll(s) ==
    LET parts == SplitMax1(s)
    IN  IF parts = <<>> THEN <<>>
        ELSE IF Len(parts) = 1 THEN parts
        ELSE <<parts[1]>> \o SplitAll(parts[2])

\* _show_ai_info: self.ai_service is never assigned, the attribute lookup raises
ShowAiInfo(r) == Raise(r, "AttributeError")

\* _handle_ai_settings
RECURSIVE InvalidPairs(_, _)
InvalidPairs(r, pairs) ==
    IF pairs = <<>> THEN r
    ELSE InvalidPairs(
             IF \E i \in 1..Len(Head(pairs)) : Head(pairs)[i] = "="
             THEN r
             ELSE PrintError(r, <<"Invalid setting format: ">> \o Head(pairs) \o <<". Use key=value">>),
             Tail(pairs))

HandleAiSettings(args) ==
    LET pairs == SplitAll(args)
        r == InvalidPairs(Cur, pairs)
    IN  IF args = <<>> THEN ShowAiInfo(Cur)
        ELSE IF \A i \in 1..Len(pairs) : \A j \in 1..Len(pairs[i]) : pairs[i][j] # "="
        THEN PrintError(r, <<"No valid settings provided">>)
        ELSE PrintError(r, <<"Error updating AI settings: ">>)

\* _handle_ai
HandleAi(args) ==
    LET parts == SplitMax1(args)
        subcommand == Lower(parts[1])
        subargs == IF Len(parts) > 1 THEN parts[2] ELSE <<>>
    IN  IF args = <<>> THEN ShowAiInfo(Cur)
        ELSE IF parts = <<>> THEN Raise(Cur, "IndexError")
        ELSE IF subcommand = <<"info">> THEN ShowAiInfo(Cur)
        ELSE IF subcommand = <<"settings">> THEN HandleAiSettings(subargs)
        ELSE PrintInfo(PrintError(Cur, <<"Unknown AI subcommand: ">> \o subcommand),
                       <<"Available subcommands: info, settings">>)

(***************************************************************************)
(* AiricREPL.start: the startup and the main loop                          *)
(***************************************************************************)
\* _open_default_document: the first of README.md and index.md that exists and
\* loads becomes the active document
RECURSIVE OpenDefaultDocument(_, _, _)
OpenDefaultDocument(r, candidates, io) ==
    IF candidates = <<>> THEN r
    ELSE LET path == Join(The(r.ws), PathOf(Head(candidates)))
         IN  IF ~Exists(path, r.F, r.D) THEN OpenDefaultDocument(r, Tail(candidates), io)
             ELSE IF LoadRaises(path, r.F, io)
             THEN OpenDefaultDocument(
                      PrintWarning(r, <<"Error opening default document ">> \o Head(candidates)),
                      Tail(candidates), io)
             ELSE IF AccessorRaises(Loaded(path, r.F)) THEN SetActive(r, Loaded(path, r.F))
             ELSE PrintInfo(SetActive(r, Loaded(path, r.F)),
                            <<"Opened default document: ">> \o Head(candidates))

\* _initialize_workspace; workspace_path is the constructor's argument, {} for None
InitializeSession(workspace_path, io) ==
    LET found == IF workspace_path # {} THEN workspace_path
                 ELSE FindWorkspaceRoot(Cwd, dirs)
        r0 == PrintPanel(Cur, "Welcome to Airic!")
    IN  IF found # {} /\ ContextYields(The(found), files, dirs)
        THEN OpenDefaultDocument([r0 EXCEPT !.ws = found],
                                 << <<"README", ".md">>, <<"index", ".md">> >>, io)
        ELSE IF workspace_path # {}
        THEN PrintWarning(r0, <<"Failed to load workspace at ">> \o PathStr(The(workspace_path)))
        ELSE r0

\* a main loop that swallows the exception without a message
AfterProcessInput_Silent(r) == r

\* the main loop's except clauses around _process_input: an Exception is
\* reported and the loop goes on; the loop ends when running is false
AfterProcessInput(r) ==
    [r EXCEPT !.out = IF r.exc # "none" THEN Append(@, <<"error", "Error: ", r.exc>>) ELSE @]

\* KeyboardInterrupt at the prompt
OnKeyboardInterrupt == PrintWarning(Cur, <<"Operation cancelled.">>)

\* EOFError at the prompt
OnEOF == [PrintSuccess(Cur, <<"Goodbye!">>) EXCEPT !.running = FALSE]

\* the position of the loop after a turn: while self.running
LoopPc(r) == IF r.running THEN "prompt" ELSE "done"

(***************************************************************************)
(* Bounds and inputs                                                       *)
(***************************************************************************)
MaxTurns == 2

MD(name) == <<name, ".md">>

\* the lines a user types
CommandLines ==
    { <<SLASH, "exit">>,
      <<SLASH, "quit">>,
      <<SP, SLASH, "Exit", SP, "now", SP>>,
      <<SLASH, "help">>,
      <<SLASH, "list">>,
      <<SLASH, "list", SP, SLASH, "*", ".md">>,
      <<SLASH, "open">>,
      <<SLASH, "open", SP, "docs", SLASH, "current", ".md">>,
      <<SLASH, "open", SP, "docs", SLASH, "odd", ".md">>,
      <<SLASH, "open", SP, "missing", ".md">>,
      <<SLASH, "open", SP, "[[", "Notes", "]]">>,
      <<SLASH, "open", SP, SP, "[[", SP, SLASH, "Notes", SP, "]]">>,
      <<SLASH, "open", SP, "[[", "drafts", SLASH, "Idea", "]]">>,
      <<SLASH, "OPEN", SP, SLASH, "ws", SLASH, "README", ".md">>,
      <<SLASH, "new", SP, "new", "_", "doc", ".md">>,
      <<SLASH, "new", SP, "docs", SLASH, "current", ".md">>,
      <<SLASH, "new">>,
      <<SLASH, "info">>,
      <<SLASH, "close">>,
      <<SLASH, "init">>,
      <<SLASH, "init", SP, "sub">>,
      <<SLASH, "edit">>,
      <<SLASH, "save">>,
      <<SLASH, "ai">>,
      <<SLASH, "ai", SP, "settings", SP, "model", "=", "gpt">>,
      <<SLASH, "ai", SP, "bogus">> }

OtherLines ==
    { <<SLASH, "bogus">>,
      <<SLASH, "bogus", SP, SP, "x", SP, "y">>,
      <<SLASH, "open", "[[", "Notes", "]]">>,
      <<SLASH>>,
      <<SP, SLASH, SP>>,
      <<SLASH, SP, "help", SP, SP, "me", SP, "now">>,
      <<"Hello", SP, "there">>,
      <<SP, "open", SP, SLASH, "x", SP>>,
      <<SP, SP>>,
      <<>> }

Lines == CommandLines \cup OtherLines

\* what the environment does to a filesystem call
IOs == {"ok", "read_fail", "write_fail", "mkdir_fail"}

\* what the environment does to initialize_workspace
InitFaults ==
    { NoFault,
      Fault("dirs", 1, TRUE, FALSE),
      Fault("dirs", 4, FALSE, FALSE),
      Fault("config", 1, FALSE, FALSE),
      Fault("templates", 2, FALSE, FALSE),
      Fault("readme", 1, FALSE, FALSE),
      Fault("unexpected", 0, FALSE, FALSE) }

\* what prompt() returns to /edit
Edits ==
    { [kind |-> "text", text |-> <<"edited", NL>>],
      [kind |-> "KeyboardInterrupt", text |-> <<>>],
      [kind |-> "Exception", text |-> <<>>] }

\* what the agent collaborator does
AgentOutcomes ==
    { [raises |-> FALSE, text |-> <<"**", "reply", "**">>],
      [raises |-> TRUE, text |-> <<"connection refused">>] }

\* the constructor's workspace_path
StartPaths == { {}, {Cwd}, {Sub(Cwd, <<"docs">>)} }

\* the filesystems a session starts in
WorkspaceDirs == Ancestors(Cwd) \cup Range(InitDirs(Cwd)) \cup {Sub(Cwd, <<"docs">>)}

ReadmePath == Sub(Cwd, MD("README"))
IndexPath == Sub(Cwd, MD("index"))
CurrentPath == Sub(Cwd, <<"docs", SLASH, "current", ".md">>)
OddPath == Sub(Cwd, <<"docs", SLASH, "odd", ".md">>)

ConfigText == <<"name", ":", SP, "demo", NL>>
ReadmeWithAgent ==
    <<SEP, NL, "agent", ":", SP, "bot", NL, "doctype", ":", SP, "note", NL, SEP, NL, NL,
      "See", SP, "[[", "Notes", "]]", NL>>
CurrentText == <<SEP, NL, "doctype", ":", SP, "spec", NL, SEP, NL, "Current">>
OddText == <<SEP, NL, "just text", NL, SEP, NL, "Odd">>
PlainText == <<"Plain", NL>>

StartFilesystems ==
    { \* an empty directory, no workspace
      [F |-> [q \in {} |-> <<>>], D |-> Ancestors(Cwd)],
      \* a valid workspace whose README names a doctype and an agent
      [F |-> [q \in {ConfigPath(Cwd), ReadmePath, CurrentPath, OddPath} |->
                 CASE q = ConfigPath(Cwd) -> ConfigText
                   [] q = ReadmePath -> ReadmeWithAgent
                   [] q = CurrentPath -> CurrentText
                   [] OTHER -> OddText],
       D |-> WorkspaceDirs],
      \* a valid workspace without README: index.md has no frontmatter
      [F |-> [q \in {ConfigPath(Cwd), IndexPath, CurrentPath} |->
                 CASE q = ConfigPath(Cwd) -> ConfigText
                   [] q = IndexPath -> PlainText
                   [] OTHER -> CurrentText],
       D |-> WorkspaceDirs],
      \* a valid workspace whose README frontmatter is a plain scalar
      [F |-> [q \in {ConfigPath(Cwd), ReadmePath} |->
                 IF q = ReadmePath THEN OddText ELSE ConfigText],
       D |-> WorkspaceDirs] }

(***************************************************************************)
(* The state machine                                                       *)
(***************************************************************************)
Init ==
    /\ pc = "startup"
    /\ running = TRUE
    /\ workspace = {}
    /\ active_document = {}
    /\ active_doctype = None
    /\ active_agent = None
    /\ \E fs \in StartFilesystems : files = fs.F /\ dirs = fs.D
    /\ signal = "none"
    /\ lastInput = <<>>
    /\ called = <<>>
    /\ agentCalls = <<>>
    /\ out = <<>>
    /\ escaped = FALSE
    /\ turns = 0

\* the attributes and the filesystem a call leaves
Effect(r) ==
    /\ running' = r.running
    /\ workspace' = r.ws
    /\ active_document' = r.doc
    /\ active_doctype' = r.doctype
    /\ active_agent' = r.agent
    /\ files' = r.F
    /\ dirs' = r.D
    /\ agentCalls' = r.agentCalls
    /\ out' = r.out
    /\ escaped' = (r.exc # "none")

\* start() up to the loop: an exception other than WorkspaceValidationError
\* leaves start() and ends the process
Startup ==
    /\ pc = "startup"
    /\ \E wp \in StartPaths, io \in {"ok", "read_fail"} :
          \E r \in {InitializeSession(wp, io)} :
              /\ Effect(r)
              /\ pc' = IF r.exc # "none" THEN "crashed" ELSE "prompt"
    /\ UNCHANGED <<signal, lastInput, called, turns>>

\* the loop is at the prompt and the user has input left
Prompting == pc = "prompt" /\ turns < MaxTurns

\* one turn of the loop that read line and ran _process_input with result r
Turn(line, r) ==
    /\ Effect(AfterProcessInput(r))
    /\ pc' = LoopPc(r)
    /\ signal' = "line"
    /\ lastInput' = line
    /\ called' = IF Route(line).kind \in {"command", "text"}
                 THEN <<[handler |-> Route(line).handler, args |-> Route(line).args]>>
                 ELSE <<>>
    /\ turns' = turns + 1

Routed(line, handler) ==
    Prompting /\ Strip(line) # <<>> /\ Route(line).handler = handler

\* the prompt raised KeyboardInterrupt
Interrupt ==
    /\ Prompting
    /\ Effect(OnKeyboardInterrupt)
    /\ pc' = LoopPc(OnKeyboardInterrupt)
    /\ signal' = "KeyboardInterrupt"
    /\ turns' = turns + 1
    /\ called' = <<>>
    /\ UNCHANGED lastInput

\* the prompt raised EOFError
EndOfInput ==
    /\ Prompting
    /\ Effect(OnEOF)
    /\ pc' = "done"
    /\ signal' = "EOFError"
    /\ turns' = turns + 1
    /\ called' = <<>>
    /\ UNCHANGED lastInput

\* a blank line: continue
BlankLine(line) ==
    /\ Prompting
    /\ Strip(line) = <<>>
    /\ Effect(Cur)
    /\ pc' = "prompt"
    /\ signal' = "line"
    /\ lastInput' = line
    /\ called' = <<>>
    /\ turns' = turns + 1

Exit(line) == Routed(line, "_handle_exit") /\ \E r \in {HandleExit(Route(line).args)} : Turn(line, r)

Help(line) == Routed(line, "_handle_help") /\ \E r \in {HandleHelp(Route(line).args)} : Turn(line, r)

List(line) ==
    /\ Routed(line, "_handle_list")
    /\ \E io \in {"ok", "read_fail"} : \E r \in {HandleList(Route(line).args, io)} : Turn(line, r)

Open(line) ==
    /\ Routed(line, "_handle_open")
    /\ \E io \in IOs : \E r \in {HandleOpen(Route(line).args, io)} : Turn(line, r)

New(line) ==
    /\ Routed(line, "_handle_new")
    /\ \E io \in IOs : \E r \in {HandleNew(Route(line).args, io)} : Turn(line, r)

Info(line) == Routed(line, "_handle_info") /\ \E r \in {HandleInfo(Route(line).args)} : Turn(line, r)

Close(line) == Routed(line, "_handle_close") /\ \E r \in {HandleClose(Route(line).args)} : Turn(line, r)

InitCommand(line) ==
    /\ Routed(line, "_handle_init")
    /\ \E fault \in InitFaults, io \in {"ok", "mkdir_fail"} :
          \E r \in {HandleInit(Route(line).args, fault, io)} : Turn(line, r)

Edit(line) ==
    /\ Routed(line, "_handle_edit")
    /\ \E edit \in Edits : \E r \in {HandleEdit(Route(line).args, edit)} : Turn(line, r)

Save(line) ==
    /\ Routed(line, "_handle_save")
    /\ \E io \in IOs : \E r \in {HandleSave(Route(line).args, io)} : Turn(line, r)

Ai(line) == Routed(line, "_handle_ai") /\ \E r \in {HandleAi(Route(line).args)} : Turn(line, r)

Text(line) ==
    /\ Routed(line, "_handle_text_input")
    /\ \E agent \in AgentOutcomes : \E r \in {HandleTextInput(Route(line).args, agent)} : Turn(line, r)

UnknownCommand(line) ==
    /\ Prompting /\ Strip(line) # <<>> /\ Route(line).kind = "unknown"
    /\ \E r \in {HandleUnknown(Route(line).command)} : Turn(line, r)

\* a line that is only the prefix: parts[0] raises IndexError in _handle_command
BarePrefix(line) ==
    /\ Prompting /\ Strip(line) # <<>> /\ Route(line).kind = "raise"
    /\ Turn(line, Raise(Cur, "IndexError"))

Next ==
    \/ Startup
    \/ Interrupt
    \/ EndOfInput
    \/ \E line \in Lines : BlankLine(line)
    \/ \E line \in Lines : Exit(line)
    \/ \E line \in Lines : Help(line)
    \/ \E line \in Lines : List(line)
    \/ \E line \in Lines : Open(line)
    \/ \E line \in Lines : New(line)
    \/ \E line \in Lines : Info(line)
    \/ \E line \in Lines : Close(line)
    \/ \E line \in Lines : InitCommand(line)
    \/ \E line \in Lines : Edit(line)
    \/ \E line \in Lines : Save(line)
    \/ \E line \in Lines : Ai(line)
    \/ \E line \in Lines : Text(line)
    \/ \E line \in Lines : UnknownCommand(line)
    \/ \E line \in Lines : BarePrefix(line)

Spec == Init /\ [][Next]_vars

\* another program rewrites the file of the active document while the
\* session waits at the prompt: the Document object in memory is not told
ExternalEdit ==
    /\ pc = "prompt"
    /\ active_document # {}
    /\ The(active_document).path \in DOMAIN files
    /\ files[The(active_document).path] # CurrentText
    /\ files' = [files EXCEPT ![The(active_document).path] = CurrentText]
    /\ UNCHANGED <<pc, running, workspace, active_document, active_doctype, active_agent,
                   dirs, signal, lastInput, called, agentCalls, out, escaped, turns>>

\* the session together with a filesystem that other programs write to
DiskNext == Next \/ ExternalEdit

DiskSpec == Init /\ [][DiskNext]_vars

(***************************************************************************)
(* The core interface without the REPL: a caller that constructs a         *)
(* Document, calls its methods in any order, and calls                     *)
(* initialize_workspace.  In these behaviours active_document is the       *)
(* Document the caller holds, workspace the directories for which          *)
(* initialize_workspace returned success, called the last call with its    *)
(* arguments, out what it returned, escaped whether it raised, and turns   *)
(* the number of calls made.                                               *)
(***************************************************************************)
MaxCalls == 3

\* what the caller passes: the paths and content strings it constructs a
\* Document from (without frontmatter, with frontmatter, with a scalar as
\* frontmatter, unclosed, empty and malformed frontmatter), the arguments of
\* update_metadata and update_body, the directories it initializes, what the
\* environment does to initialize_workspace, and the filesystems it starts in (an empty directory; a directory with two
\* documents and no workspace)
CoreInputs ==
    [paths |-> {CurrentPath, OddPath},
     contents |->
        { PlainText, CurrentText, ReadmeWithAgent, OddText,
          <<SEP, NL, "title", ":", SP, "T", NL, "Body", NL>>,
          <<SEP, NL, SEP, NL, "Body">>,
          <<SEP, NL, "title", ":", SP, "T", NL, "just text", NL, SEP, NL, "Body">> },
     patches |->
        { [k \in {"title"} |-> <<"T2">>],
          [k \in {"doctype", "title"} |-> IF k = "title" THEN <<"T2">> ELSE <<"memo">>] },
     bodies |-> { <<"edited", NL>>, <<"Body">>, <<>> },
     directories |-> {Cwd, Sub(Cwd, <<"docs">>)},
     faults |-> {NoFault, Fault("templates", 2, FALSE, FALSE),
                 Fault("unexpected", 0, FALSE, FALSE)},
     filesystems |->
        { [F |-> [q \in {} |-> <<>>], D |-> Ancestors(Cwd)],
          [F |-> [q \in {CurrentPath, OddPath} |->
                     IF q = CurrentPath
                     THEN <<SEP, NL, "title", ":", SP, "T", NL, "Body", NL>>
                     ELSE OddText],
           D |-> Ancestors(Cwd) \cup {Sub(Cwd, <<"docs">>)}] }]

CoreInit ==
    /\ pc = "core"
    /\ running = TRUE
    /\ workspace = {}
    /\ active_document = {}
    /\ active_doctype = None
    /\ active_agent = None
    /\ \E fs \in CoreInputs.filesystems : files = fs.F /\ dirs = fs.D
    /\ signal = "none"
    /\ lastInput = <<>>
    /\ called = <<>>
    /\ agentCalls = <<>>
    /\ out = <<>>
    /\ escaped = FALSE
    /\ turns = 0

\* one call: what it leaves behind
CoreStep(name, args, doc, F, D, ret, raised) ==
    /\ turns < MaxCalls
    /\ turns' = turns + 1
    /\ called' = <<[handler |-> name, args |-> args]>>
    /\ active_document' = doc
    /\ files' = F
    /\ dirs' = D
    /\ out' = ret
    /\ escaped' = raised
    /\ UNCHANGED <<pc, running, active_doctype, active_agent, signal, lastInput, agentCalls>>

CoreNext ==
    \* Document(path, content)
    \/ \E path \in CoreInputs.paths, content \in CoreInputs.contents :
          /\ CoreStep("Document", <<path, content>>, {DocumentFromContent(path, content)},
                      files, dirs, <<>>, FALSE)
          /\ UNCHANGED workspace
    \* Document(path): _load when the path exists, an empty document otherwise
    \/ \E path \in CoreInputs.paths, io \in {"ok", "read_fail"} :
          /\ IF ~Exists(path, files, dirs)
             THEN CoreStep("Document", <<path>>, {Doc(path, {}, EmptyMeta, <<>>)},
                           files, dirs, <<>>, FALSE)
             ELSE IF LoadRaises(path, files, io)
             THEN CoreStep("Document", <<path>>, active_document, files, dirs,
                           << <<"DocumentError">> >>, TRUE)
             ELSE CoreStep("Document", <<path>>, {Loaded(path, files)}, files, dirs, <<>>, FALSE)
          /\ UNCHANGED workspace
    \* update_metadata(patch)
    \/ \E patch \in CoreInputs.patches :
          /\ active_document # {}
          /\ IF AccessorRaises(The(active_document))
             THEN CoreStep("update_metadata", <<patch>>, active_document, files, dirs,
                           << <<"AttributeError">> >>, TRUE)
             ELSE CoreStep("update_metadata", <<patch>>,
                           {UpdateMetadata(The(active_document), patch)},
                           files, dirs, <<>>, FALSE)
          /\ UNCHANGED workspace
    \* update_body(body)
    \/ \E body \in CoreInputs.bodies :
          /\ active_document # {}
          /\ CoreStep("update_body", <<body>>, {UpdateBody(The(active_document), body)},
                      files, dirs, <<>>, FALSE)
          /\ UNCHANGED workspace
    \* the content property: the cached content, serialized and cached when absent
    \/ /\ active_document # {}
       /\ \E c \in {Content(The(active_document))} :
             CoreStep("content", <<>>, {[The(active_document) EXCEPT !.cached = {c}]},
                      files, dirs, <<c>>, FALSE)
       /\ UNCHANGED workspace
    \* the doctype and agent properties
    \/ \E key \in {"doctype", "agent"} :
          /\ active_document # {}
          /\ IF AccessorRaises(The(active_document))
             THEN CoreStep(key, <<>>, active_document, files, dirs,
                           << <<"AttributeError">> >>, TRUE)
             ELSE CoreStep(key, <<>>, active_document, files, dirs,
                           <<MetaGet(The(active_document), key)>>, FALSE)
          /\ UNCHANGED workspace
    \* save()
    \/ \E io \in {"ok", "write_fail", "mkdir_fail"} :
          /\ active_document # {}
          /\ \E sv \in {SaveDoc(The(active_document), files, dirs, io)} :
                CoreStep("save", <<>>, {sv.doc}, sv.F, sv.D,
                         IF sv.ok THEN <<>> ELSE << <<"DocumentError">> >>, ~sv.ok)
          /\ UNCHANGED workspace
    \* initialize_workspace(directory)
    \/ \E directory \in CoreInputs.directories, fault \in CoreInputs.faults :
          \E res \in {InitializeWorkspace(directory, files, dirs, fault)} :
             /\ CoreStep("initialize_workspace", <<directory, fault.stage>>, active_document,
                         res.F, res.D, <<res.success>> \o res.messages, FALSE)
             /\ workspace' = IF res.success THEN workspace \cup {directory} ELSE workspace

CoreSpec == CoreInit /\ [][CoreNext]_vars

(***************************************************************************)
(* The initializer alone: a caller of initialize_workspace and of          *)
(* _rollback_initialization, in directories that hold nothing, a bare      *)
(* marker with a user's config file, or empty required directories beside  *)
(* a directory named config.yaml.  called, out, escaped and turns are as   *)
(* in CoreSpec; the arguments of initialize_workspace are the directory    *)
(* and what the environment does during the call.                          *)
(***************************************************************************)
MaxSetups == 2

SetupInit ==
    /\ pc = "setup"
    /\ running = TRUE
    /\ workspace = {}
    /\ active_document = {}
    /\ active_doctype = None
    /\ active_agent = None
    /\ \/ files = [q \in {} |-> <<>>] /\ dirs = Ancestors(Cwd)
       \/ /\ files = [q \in {ConfigPath(Cwd)} |-> ConfigText]
          /\ dirs = Ancestors(AiricDir(Cwd))
       \/ /\ files = [q \in {} |-> <<>>]
          /\ dirs = Ancestors(AgentsDir(Cwd)) \cup Ancestors(ConfigPath(Cwd))
       \* every directory of a workspace and no configuration file: what
       \* Workspace.initialize leaves when the configuration cannot be written
       \/ /\ files = [q \in {} |-> <<>>]
          /\ dirs = WorkspaceDirs
    /\ signal = "none"
    /\ lastInput = <<>>
    /\ called = <<>>
    /\ agentCalls = <<>>
    /\ out = <<>>
    /\ escaped = FALSE
    /\ turns = 0

SetupNext ==
    \* initialize_workspace(directory)
    \/ \E directory \in {Cwd, Sub(Cwd, <<"docs">>)} :
       \E fault \in InitFaults \cup {Fault("config", 1, TRUE, FALSE), Fault("config", 1, FALSE, TRUE),
                                     Fault("templates", 2, FALSE, TRUE),
                                     Fault("readme", 1, FALSE, TRUE)} :
       \E res \in {InitializeWorkspace(directory, files, dirs, fault)} :
          /\ turns < MaxSetups
          /\ CoreStep("initialize_workspace", <<directory, fault>>, {},
                      res.F, res.D, <<res.success>> \o res.messages, FALSE)
          /\ UNCHANGED workspace
    \* _rollback_initialization(created_dirs, created_files)
    \/ \E created_dirs \in {InitDirs(Cwd), SubSeq(InitDirs(Cwd), 1, 3)} :
       \E created_files \in {<<>>, <<ConfigPath(Cwd),
                                     Join(MetaDir(Cwd), PathOf(DEFAULT_TEMPLATES[1].path))>>} :
       \E stuck \in {{}, {ConfigPath(Cwd)}, {AgentsDir(Cwd)}} :
       \E rb \in {RollbackInitialization(created_dirs, created_files, files, dirs, stuck)} :
          /\ turns < MaxSetups
          /\ CoreStep("_rollback_initialization", <<created_dirs, created_files, stuck>>, {},
                      rb.F, rb.D, <<>>, FALSE)
          /\ UNCHANGED workspace

SetupSpec == SetupInit /\ [][SetupNext]_vars

(***************************************************************************)
(* Workspace and WorkspaceConfig (src/airic/core/workspace.py): two        *)
(* Workspace instances on the same root, the calls of their methods, and   *)
(* what a test or another process does to the directory in between.  In    *)
(* this specification workspace is the sequence of the instances           *)
(* [root, config]: config is {} while _config is None, else {data}.        *)
(***************************************************************************)
\* WorkspaceConfig.DEFAULT_CONFIG
DEFAULT_CONFIG ==
    ("version" :> <<"0.1.0">>) @@ ("name" :> <<"airic-workspace">>)
    @@ ("description" :> <<"Airic workspace">>) @@ ("created_at" :> None)

\* WorkspaceConfig.load(p): the data of the instance it returns, or the
\* exception it raises; an empty file loads as None and gives the defaults
ConfigLoad(p, F, D) ==
    IF ~Exists(p, F, D) THEN [raised |-> "FileNotFoundError", data |-> EmptyMeta]
    ELSE IF p \in D THEN [raised |-> "ValueError", data |-> EmptyMeta]
    ELSE LET ls == TextLines(F[p])
         IN  IF ls = <<>> THEN [raised |-> "none", data |-> MapMeta(DEFAULT_CONFIG)]
             ELSE IF \A i \in 1..Len(ls) : IsMappingLine(ls[i])
             THEN [raised |-> "none", data |-> MapMeta(MapOfLines(ls))]
             ELSE IF \A i \in 1..Len(ls) : IsScalarLine(ls[i])
             THEN [raised |-> "none", data |-> ScalarMeta(FoldLines(ls))]
             ELSE [raised |-> "ValueError", data |-> EmptyMeta]

\* a config property that loads the file on every access
ConfigRead_Reloads(w, F, D) ==
    IF ~IsInitialized(w.root, D)
    THEN [raised |-> "WorkspaceValidationError", value |-> EmptyMeta, config |-> w.config]
    ELSE IF ~Exists(ConfigPath(w.root), F, D)
    THEN [raised |-> "none", value |-> MapMeta(DEFAULT_CONFIG),
          config |-> {MapMeta(DEFAULT_CONFIG)}]
    ELSE LET l == ConfigLoad(ConfigPath(w.root), F, D)
         IN  [raised |-> l.raised, value |-> l.data,
              config |-> IF l.raised = "none" THEN {l.data} ELSE w.config]

\* the Workspace.config property of instance w
ConfigRead(w, F, D) ==
    IF ~IsInitialized(w.root, D)
    THEN [raised |-> "WorkspaceValidationError", value |-> EmptyMeta, config |-> w.config]
    ELSE IF w.config # {}
    THEN [raised |-> "none", value |-> The(w.config), config |-> w.config]
    ELSE IF ~Exists(ConfigPath(w.root), F, D)
    THEN [raised |-> "none", value |-> MapMeta(DEFAULT_CONFIG),
          config |-> {MapMeta(DEFAULT_CONFIG)}]
    ELSE LET l == ConfigLoad(ConfigPath(w.root), F, D)
         IN  [raised |-> l.raised, value |-> l.data,
              config |-> IF l.raised = "none" THEN {l.data} ELSE w.config]

\* a context that searches for the root from the explicit path as well
WorkspaceContextEnter_Discovers(workspace_path, cwd, F, D) ==
    LET root == IF workspace_path = {} THEN FindWorkspaceRoot(cwd, D)
                ELSE FindWorkspaceRoot(The(workspace_path), D)
    IN  IF root = {} \/ Validate(The(root), F, D) # <<>>
        THEN [raised |-> TRUE, workspace |-> {}]
        ELSE [raised |-> FALSE, workspace |-> {[root |-> The(root), config |-> {}]}]

\* WorkspaceContext(workspace_path).__enter__ in a process whose current
\* directory is cwd; workspace_path is {} for None, else {path}.  raised: a
\* WorkspaceValidationError left the call
WorkspaceContextEnter(workspace_path, cwd, F, D) ==
    LET root == IF workspace_path = {} THEN FindWorkspaceRoot(cwd, D) ELSE workspace_path
    IN  IF root = {} \/ Validate(The(root), F, D) # <<>>
        THEN [raised |-> TRUE, workspace |-> {}]
        ELSE [raised |-> FALSE, workspace |-> {[root |-> The(root), config |-> {}]}]

\* a Workspace.initialize that completes the caller's config: created_at
\* and version are the caller's, else those the config file holds, else the
\* time of the call and the default version
WorkspaceInitialize_Completes(w, config_data, F, D, now, io) ==
    IF w.root \notin D THEN [ok |-> FALSE, F |-> F, D |-> D, config |-> w.config]
    ELSE LET a == MakeDirs(InitDirs(w.root), 1, F, D, NoFault)
             cfg == ConfigPath(w.root)
             given == IF config_data = {} THEN EmptyMap ELSE The(config_data)
             old == IF cfg \in DOMAIN F THEN ConfigLoad(cfg, F, D).data.map ELSE EmptyMap
             Pick(key, default) ==
                 IF key \in DOMAIN given /\ given[key] # None THEN given[key]
                 ELSE IF key \in DOMAIN old /\ old[key] # None THEN old[key]
                 ELSE default
             data == ("created_at" :> Pick("created_at", now))
                     @@ ("version" :> Pick("version", <<"0.1.0">>))
                     @@ given @@ (IF config_data = {} THEN DEFAULT_CONFIG ELSE EmptyMap)
         IN  IF ~a.ok \/ WriteRaises(cfg, a.D) \/ io = "write_fail"
             THEN [ok |-> FALSE, F |-> F, D |-> a.D, config |-> w.config]
             ELSE [ok |-> TRUE, F |-> WriteFile(F, cfg, YamlDump(MapMeta(data))),
                   D |-> a.D, config |-> {MapMeta(data)}]

\* Workspace.initialize(config_data) of instance w at time now; config_data
\* is {} for None, else {dict}.  mkdir(exist_ok=True) has no parents=True:
\* it raises when the root is missing; below an existing root the six
\* directories are made parent first.
WorkspaceInitialize(w, config_data, F, D, now, io) ==
    IF w.root \notin D THEN [ok |-> FALSE, F |-> F, D |-> D, config |-> w.config]
    ELSE LET a == MakeDirs(InitDirs(w.root), 1, F, D, NoFault)
             cfg == ConfigPath(w.root)
             given == IF config_data = {} THEN DEFAULT_CONFIG ELSE The(config_data)
             data == IF ~Exists(cfg, F, a.D) THEN ("created_at" :> now) @@ given
                     ELSE given
         IN  IF ~a.ok \/ WriteRaises(cfg, a.D) \/ io = "write_fail"
             THEN [ok |-> FALSE, F |-> F, D |-> a.D, config |-> w.config]
             ELSE [ok |-> TRUE, F |-> WriteFile(F, cfg, YamlDump(MapMeta(data))),
                   D |-> a.D, config |-> {MapMeta(data)}]

\* the inputs of the calls; clock: datetime.now().isoformat() at each call;
\* tree: the directories every start state has
WsInputs ==
    [clock   |-> <<"t1", "t2", "t3", "t4", "t5", "t6">>,
     tree    |-> Ancestors(P(<< <<"ws">>, <<"docs">>, <<"drafts">> >>))
                 \cup {P(<< <<"other">> >>)},
     starts  |-> {P(<< <<"ws">>, <<"docs">>, <<"drafts">> >>), PathOf(<<"docs">>), Cwd,
                  P(<< <<"other">> >>), P(<<>>)},
     configs |-> {{},
                  {("name" :> <<"Test">>)},
                  {("name" :> <<"Test">>) @@ ("version" :> <<"0.2.0">>)
                   @@ ("created_at" :> <<"then">>)}},
     texts   |-> {<<"name", ":", SP, "changed", NL>>},
     contexts |-> {[path |-> {}, cwd |-> Cwd],
                   [path |-> {}, cwd |-> P(<< <<"ws">>, <<"docs">>, <<"drafts">> >>)],
                   [path |-> {}, cwd |-> P(<< <<"other">> >>)],
                   [path |-> {Cwd}, cwd |-> Cwd],
                   [path |-> {Sub(Cwd, <<"docs">>)}, cwd |-> Cwd]},
     trees   |-> {AgentsDir(Cwd), MetaDir(Cwd)}]

WsInit ==
    /\ pc = "workspace"
    /\ running = TRUE
    /\ workspace = <<[root |-> Cwd, config |-> {}], [root |-> Cwd, config |-> {}]>>
    /\ active_document = {}
    /\ active_doctype = None
    /\ active_agent = None
    /\ \/ files = [q \in {} |-> <<>>] /\ dirs = WsInputs.tree
       \/ files = [q \in {} |-> <<>>] /\ dirs = WsInputs.tree \cup {AiricDir(Cwd)}
       \/ /\ files = [q \in {ConfigPath(Cwd)} |-> ConfigText]
          /\ dirs = WsInputs.tree \cup Range(InitDirs(Cwd))
       \/ /\ files = [q \in {ConfigPath(Cwd)} |-> ConfigText]
          /\ dirs = WsInputs.tree \cup Range(InitDirs(Cwd)) \cup {AiricDir(Sub(Cwd, <<"docs">>))}
    /\ signal = "none"
    /\ lastInput = <<>>
    /\ called = <<>>
    /\ agentCalls = <<>>
    /\ out = <<>>
    /\ escaped = FALSE
    /\ turns = 0

WsNext ==
    \* Workspace.find_workspace_root(start_dir), the process being in Cwd
    \/ \E start \in WsInputs.starts :
          /\ CoreStep("find_workspace_root", <<start>>, {}, files, dirs,
                      <<FindWorkspaceRoot(Join(Cwd, start), dirs)>>, FALSE)
          /\ UNCHANGED workspace
    \* is_initialized()
    \/ /\ CoreStep("is_initialized", <<1>>, {}, files, dirs,
                   <<IsInitialized(workspace[1].root, dirs)>>, FALSE)
       /\ UNCHANGED workspace
    \* validate()
    \/ /\ CoreStep("validate", <<1>>, {}, files, dirs,
                   Validate(workspace[1].root, files, dirs), FALSE)
       /\ UNCHANGED workspace
    \* initialize(config_data)
    \/ \E i \in DOMAIN workspace, config_data \in WsInputs.configs :
       \E r \in {WorkspaceInitialize(workspace[i], config_data, files, dirs,
                                     <<WsInputs.clock[turns + 1]>>, "ok")} :
          /\ CoreStep("initialize", <<i, config_data, "ok">>, {}, r.F, r.D, <<r.ok>>, FALSE)
          /\ workspace' = [workspace EXCEPT ![i].config = r.config]
    \* initialize() when the config file cannot be written
    \/ \E r \in {WorkspaceInitialize(workspace[1], {}, files, dirs,
                                     <<WsInputs.clock[turns + 1]>>, "write_fail")} :
          /\ CoreStep("initialize", <<1, {}, "write_fail">>, {}, r.F, r.D, <<r.ok>>, FALSE)
          /\ workspace' = [workspace EXCEPT ![1].config = r.config]
    \* the config property
    \/ \E i \in DOMAIN workspace :
       \E r \in {ConfigRead(workspace[i], files, dirs)} :
          /\ CoreStep("config", <<i>>, {}, files, dirs,
                      IF r.raised = "none" THEN <<r.value>> ELSE <<>>, r.raised # "none")
          /\ workspace' = [workspace EXCEPT ![i].config = r.config]
    \* with workspace_context(workspace_path)
    \/ \E c \in WsInputs.contexts :
       \E r \in {WorkspaceContextEnter(c.path, c.cwd, files, dirs)} :
          /\ CoreStep("workspace_context", <<c.path, c.cwd>>, {}, files, dirs,
                      IF r.raised THEN <<>> ELSE <<The(r.workspace)>>, r.raised)
          /\ UNCHANGED workspace
    \* shutil.rmtree / rmdir of a directory of the workspace
    \/ \E d \in WsInputs.trees :
          /\ d \in dirs
          /\ CoreStep("rmtree", <<d>>, {},
                      RemoveFiles(files, {q \in DOMAIN files : d \in Ancestors(q)}),
                      {q \in dirs : d \notin Ancestors(q)}, <<>>, FALSE)
          /\ UNCHANGED workspace
    \* os.remove of the config file
    \/ /\ ConfigPath(Cwd) \in DOMAIN files
       /\ CoreStep("remove", <<ConfigPath(Cwd)>>, {},
                   RemoveFiles(files, {ConfigPath(Cwd)}), dirs, <<>>, FALSE)
       /\ UNCHANGED workspace
    \* the config file is rewritten from outside
    \/ \E text \in WsInputs.texts :
          /\ ~WriteRaises(ConfigPath(Cwd), dirs)
          /\ CoreStep("write", <<ConfigPath(Cwd), text>>, {},
                      WriteFile(files, ConfigPath(Cwd), text), dirs, <<>>, FALSE)
          /\ UNCHANGED workspace

WsSpec == WsInit /\ [][WsNext]_vars

(***************************************************************************)
(* Completion (OpenCompleter and ConditionalCompleter, src/airic/cli/      *)
(* repl.py).  get_completions is a function of the session, the filesystem *)
(* and the text before the cursor; a completion is [text, meta].  sorted() *)
(* and the order of glob are the order Enum gives.                         *)
(***************************************************************************)
\* s.startswith(t)
HasPrefix(s, t) == Len(t) <= Len(s) /\ SubSeq(s, 1, Len(t)) = t

\* the elements of a finite set in some order
RECURSIVE Enum(_)
Enum(S) == IF S = {} THEN <<>> ELSE LET x == CHOOSE y \in S : TRUE IN <<x>> \o Enum(S \ {x})

\* {f"[[{link.strip()}]]" for link in re.findall(r'\[\[(.+?)\]\]', body)}:
\* from the leftmost "[[" the shortest non-empty run without newline up to a
\* "]]", then on from behind it
RECURSIVE FindLinks(_)
FindLinks(body) ==
    LET i == Find(body, "[[", 1)
        ends == {j \in (i + 2)..Len(body) :
                    body[j] = "]]" /\ \A k \in (i + 1)..(j - 1) : body[k] # NL}
        j == CHOOSE e \in ends : \A o \in ends : e <= o
    IN  IF i = 0 THEN {}
        ELSE IF ends = {} THEN FindLinks(SubSeq(body, i + 1, Len(body)))
        ELSE {<<"[[">> \o Strip(SubSeq(body, i + 1, j - 1)) \o <<"]]">>}
             \cup FindLinks(SubSeq(body, j + 1, Len(body)))

\* an OpenCompleter that drops a file only when its WikiLink is offered
OpenCompletions_OfferedOnly(ws, doc, F, D, text, io) ==
    IF ws = {} THEN <<>>
    ELSE LET parts == SplitMax1(text)
             current_input == IF Len(parts) < 2 THEN <<>> ELSE parts[2]
             workspace_root == The(ws)
             wikilinks == IF doc = {} THEN {} ELSE FindLinks(The(doc).body)
             offered == {l \in wikilinks : HasPrefix(Lower(l), Lower(current_input))}
             seps == {i \in 1..Len(current_input) : current_input[i] = SLASH}
             cut == IF seps = {} THEN 0 ELSE CHOOSE i \in seps : \A o \in seps : o <= i
             base_dir_str == IF cut = 1 THEN <<SLASH>> ELSE SubSeq(current_input, 1, cut - 1)
             partial_name == SubSeq(current_input, cut + 1, Len(current_input))
             base_path == IF cut = 0 THEN workspace_root
                          ELSE Join(workspace_root, PathOf(base_dir_str))
             n == Len(workspace_root.parts)
             items == IF io = "ok" /\ base_path \in D
                         /\ HasPrefix(PathStr(base_path), PathStr(workspace_root))
                      THEN {q \in Glob(base_path, partial_name \o <<"*">>, F, D) :
                               HasPrefix(q.parts, workspace_root.parts)}
                      ELSE {}
             IsWikilinkMatch(q) ==
                 /\ q \in DOMAIN F /\ Len(Name(q)) > 1 /\ Name(q)[Len(Name(q))] = ".md"
                 /\ <<"[[">> \o Stem(q) \o <<"]]">> \in offered
             Rel(q) == JoinParts(SubSeq(q.parts, n + 1, Len(q.parts)))
         IN  Enum({[text |-> l, meta |-> "WikiLink"] : l \in offered})
             \o Enum({[text |-> Rel(q) \o (IF q \in D THEN <<SLASH>> ELSE <<>>),
                       meta |-> IF q \in D THEN "Directory" ELSE "File"] :
                        q \in {x \in items : ~IsWikilinkMatch(x)}})

\* OpenCompleter.get_completions for the text before the cursor; io is what
\* the environment does to the glob
OpenCompletions(ws, doc, F, D, text, io) ==
    IF ws = {} THEN <<>>
    ELSE LET parts == SplitMax1(text)
             current_input == IF Len(parts) < 2 THEN <<>> ELSE parts[2]
             workspace_root == The(ws)
             wikilinks == IF doc = {} THEN {} ELSE FindLinks(The(doc).body)
             offered == {l \in wikilinks : HasPrefix(Lower(l), Lower(current_input))}
             seps == {i \in 1..Len(current_input) : current_input[i] = SLASH}
             cut == IF seps = {} THEN 0 ELSE CHOOSE i \in seps : \A o \in seps : o <= i
             base_dir_str == IF cut = 1 THEN <<SLASH>> ELSE SubSeq(current_input, 1, cut - 1)
             partial_name == SubSeq(current_input, cut + 1, Len(current_input))
             base_path == IF cut = 0 THEN workspace_root
                          ELSE Join(workspace_root, PathOf(base_dir_str))
             n == Len(workspace_root.parts)
             items == IF io = "ok" /\ base_path \in D
                         /\ HasPrefix(PathStr(base_path), PathStr(workspace_root))
                      THEN {q \in Glob(base_path, partial_name \o <<"*">>, F, D) :
                               HasPrefix(q.parts, workspace_root.parts)}
                      ELSE {}
             IsWikilinkMatch(q) ==
                 /\ q \in DOMAIN F /\ Len(Name(q)) > 1 /\ Name(q)[Len(Name(q))] = ".md"
                 /\ <<"[[">> \o Stem(q) \o <<"]]">> \in wikilinks
             Rel(q) == JoinParts(SubSeq(q.parts, n + 1, Len(q.parts)))
         IN  Enum({[text |-> l, meta |-> "WikiLink"] : l \in offered})
             \o Enum({[text |-> Rel(q) \o (IF q \in D THEN <<SLASH>> ELSE <<>>),
                       meta |-> IF q \in D THEN "Directory" ELSE "File"] :
                        q \in {x \in items : ~IsWikilinkMatch(x)}})

\* ConditionalCompleter.get_completions.  asserts: the interpreter runs
\* assert statements; PromptDocument asserts cursor_position <= len(text)
ConditionalCompletions(ws, doc, F, D, text, io, asserts) ==
    LET word_text == LStripSlash(text)
        sp == {i \in 1..Len(word_text) : IsSpace(word_text[i])}
        from == IF sp = {} THEN 0 ELSE CHOOSE i \in sp : \A o \in sp : o <= i
        word == Lower(SubSeq(word_text, from + 1, Len(word_text)))
    IN  IF HasPrefix(text, <<SLASH, "open", SP>>)
        THEN [raised |-> "none", completions |-> OpenCompletions(ws, doc, F, D, text, io)]
        ELSE IF ~StartsWith(text, SLASH)
        THEN [raised |-> "none", completions |-> <<>>]
        ELSE IF asserts /\ Len(text) - 1 > Len(word_text)
        THEN [raised |-> "AssertionError", completions |-> <<>>]
        ELSE [raised |-> "none",
              completions |-> Enum({[text |-> <<c>>, meta |-> "command"] :
                                      c \in {x \in CommandNames : HasPrefix(<<x>>, word)}})]

NotesPath == Sub(Cwd, <<"No", "tes", ".md">>)

\* the texts typed, and the sessions in which completion is asked for
CompInputs ==
    [texts |-> { <<>>, <<"Hello">>, <<SLASH>>, <<SLASH, "help">>, <<SLASH, "help", SP>>,
                 <<SLASH, SLASH>>, <<SLASH, SLASH, "help">>, <<SLASH, "open">>,
                 <<SLASH, "OPEN", SP, "No">>,
                 <<SLASH, "open", SP>>,
                 <<SLASH, "open", SP, "No">>,
                 <<SLASH, "open", SP, "[[">>,
                 <<SLASH, "open", SP, "[[", "no">>,
                 <<SLASH, "open", SP, "docs", SLASH>>,
                 <<SLASH, "open", SP, "missing", SLASH, "x">>,
                 <<SLASH, "open", SP, SLASH, "etc", SLASH>> },
     sessions |->
        LET F0 == [q \in {} |-> <<>>]
            F1 == [q \in {ConfigPath(Cwd), ReadmePath, NotesPath, CurrentPath} |->
                      CASE q = ConfigPath(Cwd) -> ConfigText
                        [] q = ReadmePath ->
                             <<"See", SP, "[[", "No", "tes", "]]", SP, "and", SP,
                               "[[", SP, "Idea", SP, "]]", NL>>
                        [] q = NotesPath -> PlainText
                        [] OTHER -> CurrentText]
            D1 == WorkspaceDirs \cup {P(<< <<"etc">> >>)}
        IN  { [ws |-> {}, doc |-> {}, F |-> F0, D |-> Ancestors(Cwd)],
              [ws |-> {}, doc |-> {}, F |-> F1, D |-> D1],
              [ws |-> {Cwd}, doc |-> {}, F |-> F1, D |-> D1],
              [ws |-> {Cwd}, doc |-> {Loaded(ReadmePath, F1)}, F |-> F1, D |-> D1],
              [ws |-> {Cwd}, doc |-> {Loaded(CurrentPath, F1)}, F |-> F1, D |-> D1],
              [ws |-> {Cwd}, doc |-> {Loaded(ReadmePath, F1)},
               F |-> [q \in {ConfigPath(Cwd), ReadmePath} |-> F1[q]], D |-> D1] }]

CompInit ==
    /\ pc = "prompt"
    /\ running = TRUE
    /\ \E s \in CompInputs.sessions :
          /\ workspace = s.ws
          /\ active_document = s.doc
          /\ files = s.F
          /\ dirs = s.D
    /\ active_doctype = None
    /\ active_agent = None
    /\ signal = "none"
    /\ lastInput = <<>>
    /\ called = <<>>
    /\ agentCalls = <<>>
    /\ out = <<>>
    /\ escaped = FALSE
    /\ turns = 0

CompNext ==
    \* ConditionalCompleter.get_completions(document, complete_event)
    \/ \E text \in CompInputs.texts, io \in {"ok", "glob_fail"}, asserts \in BOOLEAN :
       \E r \in {ConditionalCompletions(workspace, active_document, files, dirs,
                                        text, io, asserts)} :
          /\ CoreStep("get_completions", <<text, io, asserts>>, active_document,
                      files, dirs, r.completions, r.raised # "none")
          /\ UNCHANGED workspace

CompSpec == CompInit /\ [][CompNext]_vars

(***************************************************************************)
(* AgentInteractor.run_interaction (src/airic/core/agent.py), one step per *)
(* attempt and per sleep.  In this specification workspace is the          *)
(* interactor [agent, session], lastInput the full_input of the running    *)
(* call, turns its retries, agentCalls what each of its attempts met,      *)
(* signal the backoff of the last sleep, called the calls made so far,     *)
(* newest first, out the string returned.                                  *)
(***************************************************************************)
MAX_RETRIES == 3

MaxInteractions == 2

\* one pass of the while loop, the sleep excluded; met is what run_async did:
\* a final response with text, one without text part, one without content, or
\* an exception.  backoff is INITIAL_BACKOFF_SECONDS * 2 ** (retries - 1)
RunAttempt_RaisesAtEnd(retries, met) ==
    CASE met = "text" ->
           [pc |-> "returned", value |-> <<"reply">>, raised |-> FALSE,
            retries |-> retries, backoff |-> 0]
      [] met = "no_text" ->
           [pc |-> "returned", value |-> <<"(Agent responded with non-text data: ", "type", ")">>,
            raised |-> FALSE, retries |-> retries, backoff |-> 0]
      [] met = "empty" ->
           [pc |-> "returned",
            value |-> <<"Error: Received an empty or unexpected response from the agent.">>,
            raised |-> FALSE, retries |-> retries, backoff |-> 0]
      [] OTHER ->
           IF retries + 1 > MAX_RETRIES
           THEN [pc |-> "returned", value |-> <<>>, raised |-> TRUE,
                 retries |-> retries + 1, backoff |-> 0]
           ELSE [pc |-> "backoff", value |-> <<>>, raised |-> FALSE,
                 retries |-> retries + 1, backoff |-> 2 ^ retries]

RunAttempt(retries, met) ==
    CASE met = "text" ->
           [pc |-> "returned", value |-> <<"reply">>, raised |-> FALSE,
            retries |-> retries, backoff |-> 0]
      [] met = "no_text" ->
           [pc |-> "returned", value |-> <<"(Agent responded with non-text data: ", "type", ")">>,
            raised |-> FALSE, retries |-> retries, backoff |-> 0]
      [] met = "empty" ->
           [pc |-> "returned",
            value |-> <<"Error: Received an empty or unexpected response from the agent.">>,
            raised |-> FALSE, retries |-> retries, backoff |-> 0]
      [] OTHER ->
           IF retries + 1 > MAX_RETRIES
           THEN [pc |-> "returned",
                 value |-> <<"Sorry, I encountered an error after multiple retries: ", "e">>,
                 raised |-> FALSE, retries |-> retries + 1, backoff |-> 0]
           ELSE [pc |-> "backoff", value |-> <<>>, raised |-> FALSE,
                 retries |-> retries + 1, backoff |-> 2 ^ retries]

AgentInit ==
    /\ pc = "idle"
    /\ running = TRUE
    /\ \E agent \in BOOLEAN : workspace = [agent |-> agent, session |-> {}]
    /\ active_document = {}
    /\ active_doctype = None
    /\ active_agent = None
    /\ files = [q \in {} |-> <<>>]
    /\ dirs = {}
    /\ signal = 0
    /\ lastInput = <<>>
    /\ called = <<>>
    /\ agentCalls = <<>>
    /\ out = <<>>
    /\ escaped = FALSE
    /\ turns = 0

\* the while loop of a running call: an attempt, or the end of a sleep
AgentProgress ==
    /\ UNCHANGED <<running, workspace, active_document, active_doctype, active_agent,
                   files, dirs, lastInput, called>>
    /\ \/ /\ pc = "attempt" /\ turns <= MAX_RETRIES
          /\ \E met \in {"text", "no_text", "empty", "exception"} :
             \E r \in {RunAttempt(turns, met)} :
                /\ agentCalls' = Append(agentCalls, met)
                /\ pc' = r.pc
                /\ out' = IF r.pc = "returned" /\ ~r.raised THEN <<r.value>> ELSE <<>>
                /\ escaped' = r.raised
                /\ turns' = r.retries
                /\ signal' = r.backoff
       \/ /\ pc = "backoff"
          /\ pc' = "attempt"
          /\ UNCHANGED <<agentCalls, out, escaped, turns, signal>>

AgentNext ==
    \* run_interaction(user_input, context=context) up to the while loop
    \/ \E user_input \in {<<"Hello">>, <<"Why", "?">>}, context \in {<<>>, <<"Current">>} :
          /\ pc \in {"idle", "returned"} /\ ~escaped
          /\ Len(called) < MaxInteractions
          /\ called' = <<[handler |-> "run_interaction", args |-> <<user_input, context>>]>>
                       \o called
          /\ agentCalls' = <<>>
          /\ turns' = 0
          /\ signal' = 0
          /\ escaped' = FALSE
          /\ IF ~workspace.agent
             THEN /\ pc' = "returned"
                  /\ out' = << <<"Error: Agent model not configured (GEMINI_API_KEY missing?)">> >>
                  /\ UNCHANGED <<workspace, lastInput>>
             ELSE /\ pc' = "attempt"
                  /\ out' = <<>>
                  /\ workspace' = [workspace EXCEPT !.session = {"session"}]
                  /\ lastInput' = IF context # <<>>
                                  THEN <<"Context:", NL, SEP, NL>> \o context
                                       \o <<NL, SEP, NL, NL, "User Query: ">> \o user_input
                                  ELSE user_input
          /\ UNCHANGED <<running, active_document, active_doctype, active_agent, files, dirs>>
    \/ AgentProgress

\* the event loop runs a started call on: every attempt ends and every sleep ends
AgentSpec == AgentInit /\ [][AgentNext]_vars /\ WF_vars(AgentProgress)

(***************************************************************************)
(* Properties of the session                                               *)
(***************************************************************************)
\* the positions of s that hold no whitespace
NonSpace(s) == {i \in 1..Len(s) : ~IsSpace(s[i])}

Least(S) == CHOOSE i \in S : \A j \in S : i <= j

Greatest(S) == CHOOSE i \in S : \A j \in S : j <= i

\* s without its leading and trailing whitespace
Trimmed(s) ==
    IF NonSpace(s) = {} THEN <<>>
    ELSE SubSeq(s, Least(NonSpace(s)), Greatest(NonSpace(s)))

\* the first token of t and the remainder after the whitespace run that ends it
TokenFirst(t) == Least(NonSpace(t))

TokenLast(t) ==
    LET sp == {i \in TokenFirst(t)..Len(t) : IsSpace(t[i])}
    IN  IF sp = {} THEN Len(t) ELSE Least(sp) - 1

FirstTokenOf(t) == SubSeq(t, TokenFirst(t), TokenLast(t))

RemainderOf(t) ==
    LET ns == {i \in NonSpace(t) : i > TokenLast(t)}
    IN  IF ns = {} THEN <<>> ELSE SubSeq(t, Least(ns), Len(t))

\* how each line reads: its trimmed text and, when that starts with the
\* command prefix and a token follows, the token and the remainder
Reading ==
    [line \in Lines |->
        LET text == Trimmed(line)
            tokened == text # <<>> /\ Head(text) = SLASH /\ NonSpace(Tail(text)) # {}
        IN  [text |-> text,
             token |-> IF tokened THEN FirstTokenOf(Tail(text)) ELSE <<>>,
             remainder |-> IF tokened THEN RemainderOf(Tail(text)) ELSE <<>>]]

\* the line the last prompt returned, trimmed; empty when it returned none
TypedLine == IF signal = "line" THEN Reading[lastInput].text ELSE <<>>

\* the last prompt returned a line for the AI path
TypedText == TypedLine # <<>> /\ Head(TypedLine) # SLASH

\* the last prompt returned a line that starts with the command prefix
TypedCommand == TypedLine # <<>> /\ Head(TypedLine) = SLASH

\* the command token of the typed line, in lower case, and what follows it
FirstToken == Lower(Reading[lastInput].token)

Remainder == Reading[lastInput].remainder

HasToken == TypedCommand /\ FirstToken # <<>>

\* the registered commands and the handler each one names
HandlerNamed ==
    [exit |-> "_handle_exit", quit |-> "_handle_exit", help |-> "_handle_help",
     list |-> "_handle_list", open |-> "_handle_open", new |-> "_handle_new",
     info |-> "_handle_info", close |-> "_handle_close", init |-> "_handle_init",
     edit |-> "_handle_edit", save |-> "_handle_save", ai |-> "_handle_ai"]

\* the typed line names a registered command
NamesCommand ==
    HasToken /\ Len(FirstToken) = 1 /\ FirstToken[1] \in DOMAIN HandlerNamed

\* /exit or /quit was typed
ExitTyped == NamesCommand /\ FirstToken[1] \in {"exit", "quit"}

\* /exit or /quit was processed, or the prompt signalled the end of input
Exited == signal = "EOFError" \/ ExitTyped

\* the main loop printed its error line last
ErrorReported ==
    out # <<>> /\ out[Len(out)][1] = "error" /\ out[Len(out)][2] = "Error: "

\* a step in which a document that was not active becomes the active one,
\* without an exception
Activated ==
    /\ active_document' # {}
    /\ ~escaped' /\ pc' # "crashed"
    /\ \/ active_document = {}
       \/ The(active_document').path # The(active_document).path

\* C1: whenever no document is active, the active doctype and the active
\* agent are both absent (in particular after /close of an active document).
C1_NoDocumentNoDoctypeNoAgent ==
    active_document = {} => active_doctype = None /\ active_agent = None

\* C2: whenever a document becomes the active document, the active doctype
\* and the active agent are that document's metadata 'doctype' and 'agent'
\* (absent when unset), whatever was active before.
C2_ActivationSetsDoctypeAndAgent ==
    [][Activated =>
          /\ active_doctype' = MetaGet(The(active_document'), "doctype")
          /\ active_agent' = MetaGet(The(active_document'), "agent")]_vars

\* C3: once /exit or /quit was processed, or the prompt signalled the end of
\* input, the running flag is false, the loop is over, and no further step of
\* the session is taken from that state.
C3_ExitIsTerminal ==
    [][~Exited /\ (Exited' => ~running' /\ pc' = "done")]_vars

\* C3 witness: /quit was processed while a document was active.
C3_ExitedWithDocument ==
    ExitTyped /\ active_document # {} /\ ~running /\ pc = "done"

\* C4: a turn of the loop that is neither /exit, /quit nor the end of input
\* leaves the loop running at the next prompt, and when the processing of the
\* line raised an exception the loop reported the error.
C4_OnlyExitEndsTheLoop ==
    [][(turns' # turns /\ ~Exited') =>
          /\ running' /\ pc' = "prompt"
          /\ escaped' => ErrorReported']_vars

\* C4 witness: a line raised an exception and the loop is at the next prompt.
C4_LoopSurvivedAnException ==
    signal = "line" /\ escaped /\ ErrorReported /\ running /\ pc = "prompt"

\* C5: no exception escapes from the handler of a registered command to the
\* main loop, whatever the argument and the session state.
C5_HandlersReturnNormally == NamesCommand => ~escaped

\* C6: a line that starts with '/' is dispatched to exactly the handler its
\* first token names, with the remainder after the first whitespace run as the
\* argument, and never reaches the AI path; a token that names no command (or no
\* token at all) reaches no handler; a line that does not start with '/'
\* reaches the AI path with exactly the trimmed text and no command handler.
C6_InputRouting ==
    /\ NamesCommand =>
          /\ called = <<[handler |-> HandlerNamed[FirstToken[1]],
                         args |-> Remainder]>>
          /\ agentCalls = <<>>
    /\ (TypedCommand /\ ~NamesCommand) => (called = <<>> /\ agentCalls = <<>>)
    /\ TypedText =>
          /\ called = <<[handler |-> "_handle_text_input", args |-> TypedLine]>>
          /\ Len(agentCalls) = 1
          /\ Len(agentCalls[1].user_input) >= Len(TypedLine)
          /\ SubSeq(agentCalls[1].user_input, 1, Len(TypedLine)) = TypedLine

\* C6 witness: "/ help  me now" reached the help handler with "me now".
C6_CommandWithArgumentRouted ==
    /\ signal = "line"
    /\ lastInput = <<SLASH, SP, "help", SP, SP, "me", SP, "now">>
    /\ called = <<[handler |-> "_handle_help", args |-> <<"me", SP, "now">>]>>

\* C7: a line that starts with the prefix and whose token is not in the
\* command table prints an "Unknown command" error and a hint at /help, raises
\* nothing, and leaves workspace, document, doctype and agent as they were.
C7_UnknownCommandIsReported ==
    [][(HasToken' /\ ~NamesCommand') =>
          /\ Len(out') = 2
          /\ out'[1] = <<"error", "Unknown command: ">> \o FirstToken'
          /\ out'[2] = <<"info", "Type [bold]/help[/bold] for a list of available commands.">>
          /\ ~escaped'
          /\ session' = session]_vars

\* C7 witness: an unknown command was typed while a document was active.
C7_UnknownCommandWithDocument ==
    HasToken /\ ~NamesCommand /\ active_document # {} /\ Len(out) = 2

Targets == {<<"Notes">>, <<"New", SP, "Idea">>}

\* the file <target>.md in directory dir
TargetIn(dir, target) == [abs |-> dir.abs, parts |-> Append(dir.parts, target \o <<".md">>)]

\* the directory that holds path
DirectoryOf(path) == [abs |-> path.abs, parts |-> SubSeq(path.parts, 1, Len(path.parts) - 1)]

\* C10: [[Target]] resolves to Target.md beside the active document, or in
\* the workspace root when no document is active; [[/Target]] resolves to
\* Target.md in the workspace root whatever document is active.
C10_WikiLinkResolution ==
    workspace # {} =>
        \A target \in Targets :
            /\ ResolveDocumentPath(<<"[[">> \o target \o <<"]]">>) =
                  {TargetIn(IF active_document # {}
                            THEN DirectoryOf(The(active_document).path)
                            ELSE The(workspace), target)}
            /\ ResolveDocumentPath(<<"[[", SLASH>> \o target \o <<"]]">>) =
                  {TargetIn(The(workspace), target)}

\* C10 witness: /open [[Notes]] typed while docs/current.md was active opened
\* docs/Notes.md.
C10_SiblingOpened ==
    /\ signal = "line"
    /\ lastInput = <<SLASH, "open", SP, "[[", "Notes", "]]">>
    /\ active_document # {}
    /\ The(active_document).path =
          [abs |-> TRUE, parts |-> << <<"ws">>, <<"docs">>, <<"Notes", ".md">> >>]

\* /open was typed with an argument, in a workspace
OpenTyped == NamesCommand /\ FirstToken[1] = "open" /\ Remainder # <<>>

\* the files of F other than p
Others(F, p) == [q \in DOMAIN F \ {p} |-> F[q]]

\* C11: in a workspace, /open of a path that does not exist: for a WikiLink
\* the document is created on disk at the resolved path, with its parent
\* directories, and becomes the active document, unless the filesystem refused
\* the creation, which is reported and creates no file; for a plain path no
\* file or directory is created, the error "Document not found" and the hint
\* at /new are printed, and document, doctype and agent stay as they were.
C11_OpenOfMissingPath ==
    [][(OpenTyped' /\ workspace # {}) =>
          \A target \in ResolveDocumentPath(Remainder') :
              ~Exists(target, files, dirs) =>
                  IF IsWikiLink(Remainder')
                  THEN \/ /\ target \in DOMAIN files'
                          /\ Ancestors(target) \ {target} \subseteq dirs'
                          /\ dirs \subseteq dirs'
                          /\ active_document' # {}
                          /\ The(active_document').path = target
                          /\ files'[target] = Content(The(active_document'))
                          /\ Others(files', target) = files
                          /\ ~escaped'
                       \/ /\ files' = files
                          /\ active_document' = active_document
                          /\ out'[Len(out')][1] = "error"
                  ELSE /\ files' = files /\ dirs' = dirs
                       /\ out' = << <<"error", "Document not found: ">> \o PathStr(target),
                                    <<"info", "Use /new to create a new document.">> >>
                       /\ active_document' = active_document
                       /\ active_doctype' = active_doctype
                       /\ active_agent' = active_agent
                       /\ ~escaped']_vars

\* C11 witness: /open [[drafts/Idea]] typed while docs/current.md was active
\* created docs/drafts/Idea.md and its directory and made it the active document.
C11_CreatedBesideActive ==
    /\ signal = "line"
    /\ lastInput = <<SLASH, "open", SP, "[[", "drafts", SLASH, "Idea", "]]">>
    /\ Sub(Cwd, <<"docs", SLASH, "drafts">>) \in dirs
    /\ Sub(Cwd, <<"docs", SLASH, "drafts", SLASH, "Idea", ".md">>) \in DOMAIN files
    /\ active_document # {}
    /\ The(active_document).path = Sub(Cwd, <<"docs", SLASH, "drafts", SLASH, "Idea", ".md">>)

\* /list, /open or /new was typed
DocumentCommandTyped == NamesCommand /\ FirstToken[1] \in {"list", "open", "new"}

\* C12: without a workspace, /list, /open and /new, whatever their argument,
\* print the one error "No active workspace", raise nothing, touch no file
\* or directory, and leave the session without workspace and without document.
C12_DocumentCommandsNeedWorkspace ==
    [][(DocumentCommandTyped' /\ workspace = {}) =>
          /\ out' = << <<"error", "No active workspace. Use /init to initialize a workspace.">> >>
          /\ ~escaped'
          /\ files' = files /\ dirs' = dirs
          /\ workspace' = {}
          /\ active_document' = {}]_vars

\* C12 witness: /new docs/current.md was typed in a session without workspace
\* and was refused.
C12_NewRefusedWithoutWorkspace ==
    /\ signal = "line"
    /\ lastInput = <<SLASH, "new", SP, "docs", SLASH, "current", ".md">>
    /\ workspace = {} /\ active_document = {}
    /\ out = << <<"error", "No active workspace. Use /init to initialize a workspace.">> >>

\* /init was typed
InitTyped == NamesCommand /\ FirstToken[1] = "init"

\* C13: /init typed while a workspace is active, whatever its argument,
\* leaves workspace, document, doctype and agent as they were and creates or
\* modifies no file or directory; and no step of a session replaces or clears
\* a workspace that is set.
C13_WorkspaceIsNeverReplaced ==
    [][workspace # {} =>
          /\ workspace' = workspace
          /\ InitTyped' =>
                /\ session' = session
                /\ files' = files /\ dirs' = dirs
                /\ ~escaped']_vars

\* C13 witness: /init sub was typed while a workspace and a document were
\* active; the workspace is still the one found at startup and the directory
\* sub was not created.
C13_InitRefusedInWorkspace ==
    /\ signal = "line"
    /\ lastInput = <<SLASH, "init", SP, "sub">>
    /\ workspace = {Cwd} /\ active_document # {}
    /\ Sub(Cwd, <<"sub">>) \notin dirs
    /\ out # <<>> /\ out[1][1] = "warning"

(***************************************************************************)
(* Properties of Document and initialize_workspace (CoreSpec)              *)
(***************************************************************************)
\* the last call and whether it was made in this step
LastCall == IF called = <<>> THEN "none" ELSE called[1].handler

\* C14: for the metadata M (a mapping) and the body B of a Document,
\* parsing the serialization of (M, B) gives back (M, B), and when M is empty
\* the serialization is exactly B.
C14_RoundTrip ==
    \A doc \in active_document :
        doc.metadata.isMap =>
            /\ Parse(Serialize(doc.metadata, doc.body)) =
                  [metadata |-> doc.metadata, body |-> doc.body]
            /\ ~Truthy(doc.metadata) => Serialize(doc.metadata, doc.body) = doc.body

\* a content that starts with the separator and holds no second one
Unclosed(content) == StartsWith(content, SEP) /\ Find(content, SEP, 2) = 0

\* the content the last constructor call parsed: its argument, or the file
ConstructedFrom ==
    IF Len(called[1].args) = 2 THEN called[1].args[2] ELSE files[called[1].args[1]]

\* C15: a Document constructed from a content (given, or read from the
\* file) that starts with '---' and has no second '---' is constructed
\* without exception, with empty metadata and the whole content as its body.
C15_UnclosedFrontmatter ==
    (/\ LastCall = "Document"
     /\ Len(called[1].args) = 1 => (called[1].args[1] \in DOMAIN files /\ ~escaped)
     /\ Unclosed(ConstructedFrom)) =>
        /\ ~escaped
        /\ \A doc \in active_document :
              /\ doc.metadata = EmptyMeta
              /\ doc.body = ConstructedFrom
        /\ active_document # {}

\* C15 witness: a Document was loaded from a file whose frontmatter is not
\* closed and whose content ends with a newline.
C15_UnclosedFileLoaded ==
    /\ LastCall = "Document" /\ called[1].args = <<CurrentPath>>
    /\ CurrentPath \in DOMAIN files
    /\ files[CurrentPath] = <<SEP, NL, "title", ":", SP, "T", NL, "Body", NL>>
    /\ \A doc \in active_document :
          doc.metadata = EmptyMeta /\ doc.body = files[CurrentPath]
    /\ active_document # {}

\* C16: the content of a Document is a frontmatter block followed by its
\* body, and the block is empty exactly when the metadata is empty.
C16_ContentIsBlockThenBody ==
    \A doc \in active_document :
        LET content == Content(doc)
        IN  /\ Len(content) >= Len(doc.body)
            /\ SubSeq(content, Len(content) - Len(doc.body) + 1, Len(content)) = doc.body
            /\ (Len(content) = Len(doc.body)) <=> (doc.metadata = EmptyMeta)

\* the last call was an update that returned
Updated == LastCall \in {"update_metadata", "update_body"} /\ ~escaped

\* C17: after an update_metadata or update_body, the content is the
\* serialization of the metadata and body the update left: the next read of
\* content returns it and the next save writes it.
C17_ContentFollowsUpdates ==
    [][(Updated /\ turns' # turns) =>
          \A doc \in active_document :
              /\ Content(doc) = Serialize(doc.metadata, doc.body)
              /\ LastCall' = "content" => out' = <<Serialize(doc.metadata, doc.body)>>
              /\ (LastCall' = "save" /\ ~escaped') =>
                    files'[doc.path] = Serialize(doc.metadata, doc.body)]_vars

\* C17 witness: the content read after update_body("edited\n") on a Document
\* with metadata ends with the new body.
C17_ReadAfterUpdate ==
    /\ LastCall = "content"
    /\ \A doc \in active_document :
          /\ doc.body = <<"edited", NL>> /\ Truthy(doc.metadata)
          /\ out = <<Serialize(doc.metadata, doc.body)>>
          /\ Len(out[1]) > 2 /\ SubSeq(out[1], Len(out[1]) - 1, Len(out[1])) = <<"edited", NL>>
    /\ active_document # {}

\* C18: update_metadata(patch) gives every key of the patch the patch's
\* value, keeps every other key with its value, adds no other key and keeps the
\* body; update_body(body) sets the body and keeps the metadata.
C18_UpdatesMergeAndReplace ==
    [][(turns' # turns /\ ~escaped') =>
          \A doc \in active_document : \A new \in active_document' :
              /\ LastCall' = "update_metadata" =>
                    LET patch == called'[1].args[1]
                    IN  /\ new.metadata.isMap
                        /\ DOMAIN new.metadata.map = DOMAIN doc.metadata.map \cup DOMAIN patch
                        /\ \A k \in DOMAIN patch : new.metadata.map[k] = patch[k]
                        /\ \A k \in DOMAIN doc.metadata.map \ DOMAIN patch :
                              new.metadata.map[k] = doc.metadata.map[k]
                        /\ new.body = doc.body
              /\ LastCall' = "update_body" =>
                    /\ new.body = called'[1].args[1]
                    /\ new.metadata = doc.metadata]_vars

\* C18 witness: the patch {doctype: memo, title: T2} on the metadata
\* {agent: bot, doctype: note} left agent, replaced doctype and added title.
C18_MergedIntoExisting ==
    /\ LastCall = "update_metadata" /\ ~escaped
    /\ \A doc \in active_document :
          /\ doc.metadata.isMap
          /\ DOMAIN doc.metadata.map = {"agent", "doctype", "title"}
          /\ doc.metadata.map["agent"] = <<"bot">>
          /\ doc.metadata.map["doctype"] = <<"memo">>
          /\ doc.metadata.map["title"] = <<"T2">>
    /\ active_document # {}

\* C19: reading doctype or agent of a Document never raises, whatever
\* content the Document was constructed from, and returns the metadata value,
\* or None when the key is not set.
C19_AccessorsNeverRaise ==
    LastCall \in {"doctype", "agent"} =>
        /\ ~escaped
        /\ \A doc \in active_document : out = <<MetaGet(doc, LastCall)>>

\* C20: initialize_workspace on a directory for which an earlier call
\* returned success writes nothing, and unless an unexpected error is raised
\* it returns success with the one message "Workspace already initialized".
C20_InitializeIsIdempotent ==
    [][(turns' # turns /\ LastCall' = "initialize_workspace") =>
          \A directory \in workspace :
              called'[1].args[1] = directory =>
                  /\ files' = files /\ dirs' = dirs
                  /\ called'[1].args[2] # "unexpected" =>
                        out' = <<TRUE, <<"Workspace already initialized">> >>]_vars

\* C20 witness: the second initialize_workspace of the same directory
\* returned the message, with the workspace of the first call in place.
C20_SecondCallReturned ==
    /\ LastCall = "initialize_workspace" /\ called[1].args[1] = Cwd
    /\ Cwd \in workspace
    /\ out = <<TRUE, <<"Workspace already initialized">> >>
    /\ ConfigPath(Cwd) \in DOMAIN files /\ files[ConfigPath(Cwd)] = DefaultConfigText

(***************************************************************************)
(* Properties of initialize_workspace and its rollback (SetupSpec)         *)
(***************************************************************************)
\* this step is a call of initialize_workspace that returned failure
InitializeFailed ==
    turns' # turns /\ LastCall' = "initialize_workspace" /\ out'[1] = FALSE

\* the stage message of the failure this step returned
FailureMessage == out'[2][1]

\* C21: when initialize_workspace returns failure because the config stage
\* or the template stage failed, no config file written by the call is left: a
\* config file that exists afterwards existed before with the same content.
C21_NoConfigAfterFailure ==
    [][(/\ InitializeFailed
        /\ FailureMessage \in {"Error creating workspace configuration: ",
                               "Error creating template files: "}) =>
          \A cfg \in {ConfigPath(called'[1].args[1])} :
              cfg \in DOMAIN files' => (cfg \in DOMAIN files /\ files'[cfg] = files[cfg])]_vars

\* C22: when initialize_workspace returns failure, the files and the
\* directories are exactly those of before the call, with the same content.
C22_FailureLeavesNoTrace ==
    [][InitializeFailed => (files' = files /\ dirs' = dirs)]_vars

\* this step is a call of _rollback_initialization
RolledBack == turns' # turns /\ LastCall' = "_rollback_initialization"

\* the tracked entries whose removal does not raise
Removable(tracked) == Range(tracked) \ called'[1].args[3]

\* d holds a file or a directory after the step
OccupiedAfter(d) == \E q \in DOMAIN files' \cup dirs' : q # d /\ Parent(q) = d

\* C23: _rollback_initialization (tracked directories in creation order)
\* never raises; every tracked file whose removal does not raise is gone, also
\* from a tracked directory, which is then removed like an empty one; a tracked
\* directory is left exactly when it still holds something or its removal
\* raises; nothing that is not tracked is touched.  A failed
\* initialize_workspace returns its one stage message whatever the rollback did.
C23_RollbackFilesThenDirectories ==
    [][/\ RolledBack =>
             /\ ~escaped'
             /\ DOMAIN files' = DOMAIN files \ Removable(called'[1].args[2])
             /\ \A f \in DOMAIN files' : files'[f] = files[f]
             /\ dirs' \subseteq dirs
             /\ dirs \ dirs' \subseteq Removable(called'[1].args[1])
             /\ \A d \in Removable(called'[1].args[1]) \cap dirs :
                   d \in dirs' <=> OccupiedAfter(d)
       /\ InitializeFailed => (Len(out') = 2 /\ ~escaped')]_vars

\* C23 witness: after a successful initialization, a rollback that tracks
\* the six directories, the config file and the first template removed the two
\* files and the empty directories and left doctypes with its other templates.
C23_RolledBackAroundTemplates ==
    /\ LastCall = "_rollback_initialization"
    /\ called[1].args[1] = InitDirs(Cwd) /\ called[1].args[2] # <<>> /\ called[1].args[3] = {}
    /\ ConfigPath(Cwd) \notin DOMAIN files
    /\ Join(MetaDir(Cwd), PathOf(DEFAULT_TEMPLATES[1].path)) \notin DOMAIN files
    /\ Join(MetaDir(Cwd), PathOf(DEFAULT_TEMPLATES[2].path)) \in DOMAIN files
    /\ HistoryDir(Cwd) \notin dirs /\ WorkflowsDir(Cwd) \notin dirs
    /\ DoctypesDir(Cwd) \in dirs /\ AiricDir(Cwd) \in dirs

\* the README of a directory
ReadmeOf(directory) == Join(directory, PathOf(<<"README", ".md">>))

\* C24: a call of initialize_workspace in which only the write of
\* README.md fails returns success without message and leaves the directories,
\* the config file and the templates of a call in which nothing fails; of the
\* README there is nothing, or the empty file the failed write created.
C24_ReadmeFailureIsNotFatal ==
    [][(/\ turns' # turns /\ LastCall' = "initialize_workspace"
        /\ called'[1].args[2].stage = "readme") =>
          \A clean \in {InitializeWorkspace(called'[1].args[1], files, dirs, NoFault)} :
              (clean.success /\ clean.messages = <<>>) =>
                  /\ out' = <<TRUE>>
                  /\ dirs' = clean.D
                  /\ DOMAIN clean.F \ {ReadmeOf(called'[1].args[1])} \subseteq DOMAIN files'
                  /\ DOMAIN files' \subseteq DOMAIN clean.F
                  /\ \A f \in DOMAIN files' :
                        files'[f] = clean.F[f]
                        \/ (f = ReadmeOf(called'[1].args[1]) /\ f \notin DOMAIN files
                            /\ files'[f] = <<>>)]_vars

\* C24 witness: initialize_workspace of the empty /ws returned success
\* although README.md could not be written: the workspace is complete and
\* there is no README.
C24_InitializedWithoutReadme ==
    /\ LastCall = "initialize_workspace" /\ called[1].args[1] = Cwd
    /\ called[1].args[2].stage = "readme"
    /\ out = <<TRUE>>
    /\ IsInitialized(Cwd, dirs)
    /\ ConfigPath(Cwd) \in DOMAIN files /\ files[ConfigPath(Cwd)] = DefaultConfigText
    /\ \A i \in 1..Len(DEFAULT_TEMPLATES) :
          Join(MetaDir(Cwd), PathOf(DEFAULT_TEMPLATES[i].path)) \in DOMAIN files
    /\ ReadmeOf(Cwd) \notin DOMAIN files

\* the stage of initialize_workspace(directory) that fails first when the
\* environment injects fault on the filesystem (F, D), read off the inputs:
\* an exception outside the stages, the directory stage (injected, or a file
\* in the place of a directory), the config stage (injected, or a directory in
\* the place of the config file), else the template stage
FailingStage(directory, fault, F, D) ==
    IF fault.stage = "unexpected" THEN "unexpected"
    ELSE IF fault.stage = "dirs" /\ fault.perm THEN "permission"
    ELSE IF fault.stage = "dirs"
            \/ \E i \in 1..6 : MkdirRaises(InitDirs(directory)[i], F) THEN "dirs"
    ELSE IF fault.stage = "config" \/ ConfigPath(directory) \in D THEN "config"
    ELSE "templates"

\* the message prefix of each stage
StagePrefix ==
    [permission |-> "Permission denied when creating directories in ",
     dirs       |-> "Error creating workspace directories: ",
     config     |-> "Error creating workspace configuration: ",
     templates  |-> "Error creating template files: ",
     unexpected |-> "Unexpected error during workspace initialization: "]

\* C25: every failed call of initialize_workspace returns exactly one
\* message, and its prefix is the one of the stage that failed: the five
\* prefixes differ from each other, and a failure of one stage never carries
\* the prefix of another.
C25_OneMessageOfTheFailedStage ==
    [][InitializeFailed =>
          /\ Len(out') = 2
          /\ Len(out'[2]) = 1
          /\ FailureMessage =
                StagePrefix[FailingStage(called'[1].args[1], called'[1].args[2],
                                         files, dirs)]
          /\ \A s, t \in DOMAIN StagePrefix : StagePrefix[s] = StagePrefix[t] => s = t]_vars

\* C25 witness: a permission error while the config file was written is
\* reported with the message of the config stage.
C25_PermissionErrorInConfigStage ==
    /\ LastCall = "initialize_workspace"
    /\ called[1].args[2] = Fault("config", 1, TRUE, FALSE)
    /\ out = <<FALSE, <<"Error creating workspace configuration: ">> >>

(***************************************************************************)
(* Properties of Workspace (WsSpec)                                        *)
(***************************************************************************)
\* a call of the method name in this step
WsCalled(name) == turns' # turns /\ LastCall' = name

\* start and the directories above it that hold the marker directory
Marked(start, D) == {a \in Ancestors(start) : AiricDir(a) \in D}

\* C26: find_workspace_root(start) returns, for every start directory,
\* the nearest of start and its ancestors that holds a .airic directory
\* (start itself when it holds one), and the not-found value exactly when no
\* directory up to the filesystem root holds one; the call always returns.
C26_DiscoveryReturnsNearestMarked ==
    [][WsCalled("find_workspace_root") =>
          \A start \in {Join(Cwd, called'[1].args[1])} :
              /\ ~escaped' /\ Len(out') = 1
              /\ out'[1] = {} <=> Marked(start, dirs) = {}
              /\ \A r \in out'[1] :
                    /\ r \in Marked(start, dirs)
                    /\ \A a \in Marked(start, dirs) : Len(a.parts) <= Len(r.parts)
              /\ start \in Marked(start, dirs) => out'[1] = {start}]_vars

\* C26 witness: from /ws/docs/drafts, with a marker in /ws/docs and
\* another in /ws, the search returned /ws/docs.
C26_FoundNearestOfTwo ==
    /\ LastCall = "find_workspace_root"
    /\ called[1].args[1] = P(<< <<"ws">>, <<"docs">>, <<"drafts">> >>)
    /\ AiricDir(Cwd) \in dirs /\ AiricDir(Sub(Cwd, <<"docs">>)) \in dirs
    /\ out = << {Sub(Cwd, <<"docs">>)} >>

\* the required directories that do not exist below root
MissingRequired(root, D) == {i \in 1..Len(REQUIRED_DIRS) : Sub(root, REQUIRED_DIRS[i]) \notin D}

\* the error of validate() that names the required directory i
DirectoryError(i) == <<"Required directory '">> \o REQUIRED_DIRS[i] \o <<"' is missing">>

ConfigError == <<"Configuration file '", "config.yaml", "' is missing">>

\* the number of times e occurs in the list errors
Occurrences(errors, e) == Cardinality({k \in 1..Len(errors) : errors[k] = e})

\* C27: validate() returns exactly one error for each missing required
\* directory, naming that directory, none for a directory that exists, and
\* exactly one error for a missing config file when and only when the .airic
\* directory exists; nothing else is in the list.  With one required
\* directory missing the list has one error, with the config file missing as
\* well it has two.
C27_ValidationCompleteness ==
    [][WsCalled("validate") =>
          \A root \in {workspace[called'[1].args[1]].root} :
              /\ ~escaped'
              /\ \A i \in 1..Len(REQUIRED_DIRS) :
                    Occurrences(out', DirectoryError(i))
                       = IF i \in MissingRequired(root, dirs) THEN 1 ELSE 0
              /\ Occurrences(out', ConfigError)
                    = IF AiricDir(root) \in dirs /\ ~Exists(ConfigPath(root), files, dirs)
                      THEN 1 ELSE 0
              /\ Len(out') = Cardinality(MissingRequired(root, dirs))
                             + Occurrences(out', ConfigError)
              /\ (Cardinality(MissingRequired(root, dirs)) = 1
                  /\ Exists(ConfigPath(root), files, dirs)) => Len(out') = 1
              /\ (Cardinality(MissingRequired(root, dirs)) = 1
                  /\ ~Exists(ConfigPath(root), files, dirs)) => Len(out') = 2]_vars

\* C27 witness: the agents directory and the config file of a valid
\* workspace were deleted, and validate() returned the two errors.
C27_TwoErrorsAfterTwoDeletions ==
    /\ LastCall = "validate"
    /\ MissingRequired(Cwd, dirs) = {3}
    /\ ~Exists(ConfigPath(Cwd), files, dirs)
    /\ out = <<DirectoryError(3), ConfigError>>

\* C28: in every filesystem state is_initialized() is true exactly when
\* all required directories exist, and validate() returns no error exactly
\* when all required directories exist and the config file exists.
C28_InitializedAndValid ==
    [][/\ WsCalled("is_initialized") =>
             (out' = <<TRUE>> \/ out' = <<FALSE>>)
             /\ (out'[1] <=> MissingRequired(workspace[called'[1].args[1]].root, dirs) = {})
       /\ WsCalled("validate") =>
             (out' = <<>> <=>
                 /\ MissingRequired(workspace[called'[1].args[1]].root, dirs) = {}
                 /\ Exists(ConfigPath(workspace[called'[1].args[1]].root), files, dirs))]_vars

\* C28 witness: all required directories exist and the config file does
\* not, and validate() returned an error: initialized, not valid.
C28_InitializedNotValid ==
    /\ LastCall = "validate"
    /\ MissingRequired(Cwd, dirs) = {}
    /\ ~Exists(ConfigPath(Cwd), files, dirs)
    /\ out = <<ConfigError>>

\* the mapping a config file holds, the empty mapping when there is none
StoredConfig(root, F, D) ==
    IF ConfigPath(root) \in DOMAIN F THEN ConfigLoad(ConfigPath(root), F, D).data.map
    ELSE EmptyMap

\* key has a value in the mapping m
Has(m, key) == key \in DOMAIN m /\ m[key] # None

\* C29: Workspace.initialize(config) succeeds when the required
\* directories already exist, and after a success the stored config has a
\* created_at and a version: the caller's when the caller's config gives one,
\* else the one an earlier initialize recorded, else the time of the call and
\* the default version; the instance's config is then the stored one.
C29_InitializeCompletesConfig ==
    [][WsCalled("initialize") =>
          \A root \in {workspace[called'[1].args[1]].root} :
          \A caller \in {IF called'[1].args[2] = {} THEN EmptyMap
                         ELSE The(called'[1].args[2])} :
          \A before \in {StoredConfig(root, files, dirs)} :
          \A stored \in {StoredConfig(root, files', dirs')} :
              /\ (MissingRequired(root, dirs) = {} /\ called'[1].args[3] = "ok")
                    => out' = <<TRUE>>
              /\ out' = <<TRUE>> =>
                    /\ \A key \in {"created_at", "version"} :
                          /\ Has(stored, key)
                          /\ Has(caller, key) => stored[key] = caller[key]
                          /\ (~Has(caller, key) /\ Has(before, key))
                                => stored[key] = before[key]
                    /\ workspace'[called'[1].args[1]].config = {MapMeta(stored)}]_vars

\* what a first access of the config of root reads: the data of the config
\* file, the defaults when there is no file
OnDisk(root, F, D) ==
    IF Exists(ConfigPath(root), F, D) THEN ConfigLoad(ConfigPath(root), F, D).data
    ELSE MapMeta(DEFAULT_CONFIG)

ContextTarget(workspace_path, cwd, D) ==
    IF workspace_path # {} THEN workspace_path
    ELSE {r \in Marked(cwd, D) : \A a \in Marked(cwd, D) : Len(a.parts) <= Len(r.parts)}

\* C31: the workspace context yields a Workspace exactly when there is a
\* root to work on and validate() on it returns no errors, and the Workspace
\* it yields is on that root: the explicit path when one is given, whatever
\* lies above it, else the discovered root.  In every other case it raises
\* WorkspaceValidationError and yields nothing.
C31_ContextYieldsIffValid ==
    [][WsCalled("workspace_context") =>
          \A target \in {ContextTarget(called'[1].args[1], called'[1].args[2], dirs)} :
              IF target # {} /\ Validate(The(target), files, dirs) = <<>>
              THEN ~escaped' /\ Len(out') = 1 /\ out'[1].root = The(target)
              ELSE escaped' /\ out' = <<>>]_vars

\* C31 witness: /ws is a valid workspace, the context was entered with the
\* explicit path /ws/docs, which is none, and raised.
C31_ExplicitPathIsNotDiscovered ==
    /\ LastCall = "workspace_context"
    /\ called[1].args[1] = {Sub(Cwd, <<"docs">>)}
    /\ Validate(Cwd, files, dirs) = <<>>
    /\ escaped /\ out = <<>>

(***************************************************************************)
(* Properties of completion (CompSpec)                                     *)
(***************************************************************************)
\* the completions of one pool in the list cs
Pool(cs, metas) == {cs[i].text : i \in {k \in 1..Len(cs) : cs[k].meta \in metas}}

\* the text is typed after "/open "
OpenTypedSoFar(text) == HasPrefix(text, <<SLASH, "open", SP>>)

\* C32: get_completions returns normally for every typed text, session
\* and filesystem; when the glob of the filesystem pool fails that pool gives
\* nothing; without a workspace the /open completer gives nothing.
C32_CompletionNeverThrows ==
    [][WsCalled("get_completions") =>
          /\ ~escaped'
          /\ called'[1].args[2] = "glob_fail" => Pool(out', {"File", "Directory"}) = {}
          /\ (workspace = {} /\ OpenTypedSoFar(called'[1].args[1])) => out' = <<>>]_vars

\* what is typed after "/open "
CurrentInput(text) == IF Len(SplitMax1(text)) < 2 THEN <<>> ELSE SplitMax1(text)[2]

\* the path of q as typed from the workspace root
RelativeText(q) ==
    JoinParts(SubSeq(q.parts, Len(The(workspace).parts) + 1, Len(q.parts)))

\* the '.md' files below the workspace root that the typed text leads to: the
\* path from the root starts with the text and goes no directory deeper
MatchingFiles(typed) ==
    {q \in DOMAIN files :
        /\ HasPrefix(q.parts, The(workspace).parts)
        /\ Len(Name(q)) > 1 /\ Name(q)[Len(Name(q))] = ".md"
        /\ HasPrefix(RelativeText(q), typed)
        /\ \A i \in (Len(typed) + 1)..Len(RelativeText(q)) : RelativeText(q)[i] # SLASH}

\* C35: for a text typed after "/open " in a workspace, a matching '.md'
\* file is missing from the filesystem completions exactly when the WikiLink
\* of its stem is among the WikiLink completions of the same call, so each
\* matching file is offered by one of the pools; and no WikiLink completion
\* comes after a filesystem completion.
C35_OnlyDuplicatesAreDropped ==
    [][(/\ WsCalled("get_completions") /\ ~escaped'
        /\ OpenTypedSoFar(called'[1].args[1])
        /\ called'[1].args[2] = "ok" /\ workspace # {}) =>
          /\ \A q \in MatchingFiles(CurrentInput(called'[1].args[1])) :
                RelativeText(q) \notin Pool(out', {"File"})
                   <=> <<"[[">> \o Stem(q) \o <<"]]">> \in Pool(out', {"WikiLink"})
          /\ \A i, j \in 1..Len(out') :
                (i < j /\ out'[j].meta = "WikiLink") => out'[i].meta = "WikiLink"]_vars

Reloads ==
    /\ turns' # turns
    /\ called' # <<>> /\ called'[1].handler = "_handle_open"
    /\ Strip(called'[1].args) = <<>>
    /\ active_document # {}
    /\ \E i \in DOMAIN out' : out'[i][1] = "success" /\ out'[i][2] = "Reloaded document: "

\* C34: after /open with an empty argument has reloaded the active document,
\* the active document is the same document with the content of its file, and
\* the session's doctype and agent are those of the reloaded metadata
C34_ReloadRefreshesDoctypeAndAgent ==
    [][Reloads =>
          /\ active_document' = {Loaded(The(active_document).path, files)}
          /\ files' = files
          /\ ~AccessorRaises(The(active_document')) =>
                /\ active_doctype' = DocType(The(active_document'))
                /\ active_agent' = DocAgent(The(active_document'))]_vars

(***************************************************************************)
(* Properties of the session, continued, checked under Spec                *)
(***************************************************************************)

\* this step read a line that starts with the command prefix and called no
\* handler: the dispatch itself dealt with the line
DispatchedNowhere == turns' # turns /\ TypedCommand' /\ called' = <<>>

\* C36: a line that starts with the command prefix and names no registered
\* command, the bare prefix included, raises nothing out of the dispatch, is
\* reported as an unknown command with the hint to use /help, and leaves the
\* session and the filesystem as they were
C36_DispatchNeverRaises ==
    [][DispatchedNowhere =>
          /\ ~escaped'
          /\ Len(out') = 2
          /\ out'[1][1] = "error" /\ out'[1][2] = "Unknown command: "
          /\ out'[2] = <<"info", "Type [bold]/help[/bold] for a list of available commands.">>
          /\ UNCHANGED <<running, workspace, active_document, active_doctype, active_agent,
                         files, dirs>>]_vars

\* C37: in every state of a session an active document implies an active
\* workspace
C37_DocumentImpliesWorkspace == active_document # {} => workspace # {}

\* /new has made a document active in the session's workspace
C37_DocumentCreatedInWorkspace ==
    /\ active_document # {} /\ workspace # {}
    /\ called # <<>> /\ called[1].handler = "_handle_new"
    /\ The(active_document).path \in DOMAIN files
    /\ ~escaped

(***************************************************************************)
(* Properties of the initializer, continued, checked under SetupSpec       *)
(***************************************************************************)

\* C38: when initialize_workspace returns success, "already initialized"
\* included, validate() on that directory returns no errors
C38_SuccessMeansValid ==
    [][(/\ turns' # turns /\ LastCall' = "initialize_workspace"
        /\ out'[1] = TRUE) =>
          Validate(called'[1].args[1], files', dirs') = <<>>]_vars

\* this step ran _handle_new in a workspace with a path argument
NewCalled ==
    /\ turns' # turns
    /\ called' # <<>> /\ called'[1].handler = "_handle_new"
    /\ workspace # {} /\ called'[1].args # <<>>

\* the path /new resolves its argument to
NewPath ==
    LET p0 == PathOf(Strip(called'[1].args))
    IN  IF p0.abs THEN p0 ELSE Join(The(workspace), p0)

\* C39: /new on a path that exists reports "Document already exists" and
\* leaves the filesystem, the active document, the doctype and the agent as
\* they were; a /new that writes a file or changes the active document was
\* given a path that did not exist, and the document it makes active is the
\* one whose content it wrote to that path
C39_NewNeverOverwrites ==
    [][NewCalled =>
          /\ Exists(NewPath, files, dirs) =>
                /\ out'[1][1] = "error" /\ out'[1][2] = "Document already exists: "
                /\ UNCHANGED <<files, dirs, active_document, active_doctype, active_agent>>
          /\ (files' # files \/ active_document' # active_document) =>
                /\ ~Exists(NewPath, files, dirs)
                /\ DOMAIN files' = DOMAIN files \cup {NewPath}
                /\ \A f \in DOMAIN files : files'[f] = files[f]
                /\ active_document' # {} =>
                      /\ The(active_document').path = NewPath
                      /\ files'[NewPath] = Content(The(active_document'))]_vars

\* /new was given the path of an existing document while another document
\* was active, and refused
C39_RefusedExistingPath ==
    /\ called # <<>> /\ called[1].handler = "_handle_new"
    /\ out # <<>> /\ out[1][1] = "error" /\ out[1][2] = "Document already exists: "
    /\ CurrentPath \in DOMAIN files /\ files[CurrentPath] = CurrentText
    /\ active_document # {} /\ The(active_document).path # CurrentPath

\* the body /edit gives the active document
EditedBody == <<"edited", NL>>

\* this step ran the handler and printed the success message
Succeeded(handler, message) ==
    /\ turns' # turns
    /\ called' # <<>> /\ called'[1].handler = handler
    /\ active_document # {}
    /\ \E i \in DOMAIN out' : out'[i][1] = "success" /\ out'[i][2] = message

\* C40: /edit replaces the body of the active document and writes no file,
\* and no command other than /save changes the file of the active document;
\* /save of an edited document writes the serialization of its metadata and
\* the edited body to its file; /open with an empty argument on an edited
\* document whose file does not hold the edit gives the document the body of
\* the file again
C40_EditsAreInMemoryUntilSaved ==
    [][/\ Succeeded("_handle_edit", "Document content updated.") =>
             /\ The(active_document').body = EditedBody
             /\ The(active_document').metadata = The(active_document).metadata
             /\ The(active_document').path = The(active_document).path
             /\ UNCHANGED <<files, dirs>>
       /\ (/\ turns' # turns /\ active_document # {}
           /\ The(active_document).path \in DOMAIN files
           /\ ~Succeeded("_handle_save", "Document saved: ")) =>
             /\ The(active_document).path \in DOMAIN files'
             /\ files'[The(active_document).path] = files[The(active_document).path]
       /\ (/\ Succeeded("_handle_save", "Document saved: ")
           /\ The(active_document).body = EditedBody) =>
             /\ files' = [files EXCEPT ![The(active_document).path] =
                             Serialize(The(active_document).metadata, EditedBody)]
             /\ The(active_document').body = EditedBody
       /\ (/\ Succeeded("_handle_open", "Reloaded document: ")
           /\ The(active_document).body = EditedBody
           /\ files[The(active_document).path] #
                 Serialize(The(active_document).metadata, EditedBody)) =>
             /\ The(active_document').body =
                   Loaded(The(active_document).path, files).body
             /\ The(active_document').body # EditedBody
             /\ UNCHANGED files]_vars

\* an edited document has been saved: its file holds the edited body
C40_EditedBodyOnDisk ==
    /\ called # <<>> /\ called[1].handler = "_handle_save"
    /\ active_document # {}
    /\ The(active_document).body = EditedBody
    /\ The(active_document).path \in DOMAIN files
    /\ files[The(active_document).path] =
          Serialize(The(active_document).metadata, EditedBody)

====
